---- MODULE Spec2Model ----
(***************************************************************************)
(* Local-mirror synchronisation engine of turbo-firestore-api.             *)
(*                                                                         *)
(* Four mirrors are modelled, each from its source:                        *)
(*   "hc"  useTurboCollection        (React hook, collection mirror)       *)
(*   "cs"  TurboCollectionService    (class, collection mirror)            *)
(*   "ds"  TurboDocumentService      (class, single-document mirror)       *)
(*   "hd"  useTurboDocument          (React hook, single-document mirror)  *)
(* and the two supervisors that start and stop a data subscription as the  *)
(* authenticated user comes and goes:                                      *)
(*   "fa"  FirebaseAuthService       (class)                               *)
(*   "ua"  useAuthSync               (React hook)                          *)
(* These are independent objects that share no state, so a behaviour       *)
(* exercises one of them: Init picks it (comp) and only its operations are *)
(* enabled.                                                                *)
(*                                                                         *)
(* JavaScript is single-threaded and cooperative: an async method runs     *)
(* without interruption up to its first await and again from the           *)
(* resumption of that await to the next.  Every such run is one action.    *)
(* A React state setter is modelled as taking effect when it is called,    *)
(* and the callbacks a caller holds are those of the latest render.        *)
(***************************************************************************)
EXTENDS Integers, Sequences, FiniteSets, TLC

\* ------------------------------------------------------------------ bounds

\* Mutation calls that may be in flight at the same time.
MaxCalls == 1
\* Items of one batch call.
MaxBatch == 2
\* Remote listeners of one mirror service that may be live at the same time
\* (a correct service never has more than one).
MaxListeners == 2
\* Snapshot handlers of TurboCollectionService suspended in beforeSync.
MaxHandlers == 2
\* The retry limit of a supervisor (maxRetries, _maxNrOfRetry).
MaxRetries == 3
\* Auth observers, data subscriptions and timers a supervisor may have
\* created and not released at the same time.
MaxHandles == 2
\* Auth callbacks of a supervisor suspended in an await.
MaxAuthHandlers == 2
MaxRaceCalls == 2

\* ------------------------------------------------------------- value space

\* Identities of entities.
Ids == {"t1", "t2"}
\* Contents an entity may have (a transform may return any of them).
Vals == {"v1", "v2"}
\* Absence of an entity from a collection mirror.
Absent == "absent"
MaybeVal == Vals \cup {Absent}
\* A collection mirror: identity -> entity content, or Absent.
Maps == [Ids -> MaybeVal]
EmptyMap == [i \in Ids |-> Absent]

\* An entity held by a single-document mirror, and null.
Docs == [id : Ids, val : Vals]
NullDoc == [id |-> "none", val |-> Absent]
MaybeDoc == Docs \cup {NullDoc}

\* Errors a Remote Store operation may fail with (FirestoreError codes).
RemoteErrors == {"unavailable", "permission-denied"}
\* What a Remote Store call answers: "ok" or one of the errors.
Responses == {"ok"} \cup RemoteErrors
\* The local error of a mutation on a missing identity.
NotFound == "not-found"

Components == {"hc", "cs", "ds", "hd"}
CallIds == 1 .. MaxCalls

\* One item of a batch: the identity and the content the transform returns.
Items == [id : Ids, val : Vals]
Batches == UNION {[1 .. n -> Items] : n \in 0 .. MaxBatch}
IdBatches == UNION {[1 .. n -> Ids] : n \in 0 .. MaxBatch}

VARIABLES
  comp,               \* the mirror this behaviour exercises
  calls,              \* the mutation calls: one record per call slot
  hc_docsById,        \* useTurboCollection: docsById state
  hc_isReady,         \* useTurboCollection: isReady state
  cs_docsById,        \* TurboCollectionService._docsById
  cs_docsInformer,    \* TurboCollectionService._docsInformer (its entities)
  cs_isReadyResolved, \* TurboCollectionService._isReadyResolved
  cs_isLoaded,        \* TurboCollectionService._isLoaded
  cs_isLoading,       \* TurboCollectionService._isLoading
  cs_unsubscribe,     \* TurboCollectionService._unsubscribe (0 = null)
  cs_listeners,       \* the remote listeners of the service that are live
  cs_handlers,        \* snapshot handlers suspended in `await beforeSync`
  cs_loadPromise,     \* TurboCollectionService._loadPromise is not null
  ds_doc,             \* TurboDocumentService._doc
  ds_isReadyResolved, \* TurboDocumentService._isReadyResolved
  ds_unsubscribe,     \* TurboDocumentService._unsubscribe: the document its
                      \* listener was registered for ("none" = null)
  ds_listeners,       \* documents of the remote listeners that are live
  hd_doc,             \* useTurboDocument: doc state
  hd_previousDocRef,  \* useTurboDocument: previousDocRef.current
  hd_isReady,         \* useTurboDocument: isReady state
  hd_defaultValue,    \* useTurboDocument: what defaultValueLocator returns
  releasedTwice,      \* history: an unsubscribe handle that was not live has
                      \* been invoked
  lastApplied,        \* history: the snapshots a single-document mirror has
                      \* applied (their parity) and the last one, as the
                      \* listener delivered it
  fa_cachedUserId,    \* FirebaseAuthService.cachedUserId
  fa_subscription,    \* FirebaseAuthService._subscription (0 = null)
  fa_userSubscription,\* FirebaseAuthService._userSubscription (0 = null)
  fa_retryTimer,      \* FirebaseAuthService._retryTimer (0 = null)
  fa_nrOfRetry,       \* FirebaseAuthService._nrOfRetry
  ua_isReady,         \* useAuthSync: isReady state
  ua_cachedUserId,    \* useAuthSync: cachedUserId state
  ua_isRetrying,      \* useAuthSync: isRetrying state
  ua_retryCount,      \* useAuthSync: retryCount state
  ua_streamUnsubscribeRef, \* useAuthSync: streamUnsubscribeRef.current
  ua_retryTimeoutRef, \* useAuthSync: retryTimeoutRef.current
  ua_currentUserRef,  \* useAuthSync: currentUserRef.current
  ua_isMountedRef,    \* useAuthSync: isMountedRef.current
  ua_unsubscribeAuth, \* useAuthSync: unsubscribeAuth of the effect (0 = none)
  ua_onAuth,          \* useAuthSync: the onAuth option is given
  observers,          \* the auth observers that are registered
  streams,            \* the data subscriptions started and not released
  timers,             \* the retry timers that are pending
  handlers,           \* auth callbacks suspended in an await
  last,               \* history: what the most recent step of a supervisor
                      \* did, or the error of a collection stream
  run,                \* history: the stream errors in a row
  scope,              \* the user each live data subscription was started
                      \* for: the argument of its stream(user) call
  sequential          \* history: every call and event so far arrived while
                      \* no auth callback was suspended

hcVars == <<hc_docsById, hc_isReady>>
csVars == <<cs_docsById, cs_docsInformer, cs_isReadyResolved, cs_isLoaded,
            cs_isLoading, cs_unsubscribe, cs_listeners, cs_handlers, cs_loadPromise>>
dsVars == <<ds_doc, ds_isReadyResolved, ds_unsubscribe, ds_listeners>>
hdVars == <<hd_doc, hd_previousDocRef, hd_isReady, hd_defaultValue>>
ghostVars == <<releasedTwice, lastApplied>>
faVars == <<fa_cachedUserId, fa_subscription, fa_userSubscription,
            fa_retryTimer, fa_nrOfRetry>>
uaVars == <<ua_isReady, ua_cachedUserId, ua_isRetrying, ua_retryCount,
            ua_streamUnsubscribeRef, ua_retryTimeoutRef, ua_currentUserRef,
            ua_isMountedRef, ua_unsubscribeAuth, ua_onAuth>>
envVars == <<observers, streams, timers, handlers>>
authRest == <<faVars, uaVars, envVars, run, scope, sequential>>
authVars == <<faVars, uaVars, envVars, last, run, scope, sequential>>
mirrorVars == <<calls, hcVars, csVars, dsVars, hdVars, lastApplied>>
vars == <<comp, calls, hcVars, csVars, dsVars, hdVars, ghostVars, authVars>>

\* ------------------------------------------------------------ call records

(* A call slot.  st: "idle" | "pending" (suspended in its await) | "done".  *)
(* op, ids, vals: the operation and its arguments (vals: what the           *)
(* transforms returned).  prev: the previous value the code captured for    *)
(* its rollback (<<>> when it captured none).  res/err/out: the result the  *)
(* call resolved with ("success" | "fail", or "throw" for an exception      *)
(* that escaped).  History kept for the properties: pre (the mirror just    *)
(* before the call), issued (a Remote Store call, or the batch commit, was  *)
(* issued), sfail (a staging step of the batch failed), rerr (the error the *)
(* Remote Store answered), snap (the last snapshot applied while the call   *)
(* was pending), others (another mutation has touched the mirror since the  *)
(* call began, or anything has since it settled).                           *)
IdleCall ==
  [st |-> "idle", op |-> "none", ids |-> <<>>, vals |-> <<>>, prev |-> <<>>,
   pre |-> <<>>, issued |-> FALSE, sfail |-> FALSE, res |-> "none",
   err |-> "none", rerr |-> "none", out |-> <<>>, snap |-> <<>>,
   others |-> FALSE]

\* The call suspended in its await of the Remote Store.
PendingCall(op, ids, vals, prev, pre) ==
  [IdleCall EXCEPT !.st = "pending", !.op = op, !.ids = ids, !.vals = vals,
                   !.prev = prev, !.pre = <<pre>>, !.issued = TRUE]

\* fail(error, ...): a failure result carrying the error.
Fail(c, e) == [c EXCEPT !.st = "done", !.res = "fail", !.err = e]

\* success(value): a success result carrying the value(s).
Success(c, out) == [c EXCEPT !.st = "done", !.res = "success", !.out = out]

\* A call that resolved before reaching any await.
LocalCall(op, ids, vals, pre) ==
  [IdleCall EXCEPT !.op = op, !.ids = ids, !.vals = vals, !.pre = <<pre>>]

\* The staging failure of a batch, as the call's history records it.
StagingFailed(c, e) == [c EXCEPT !.sfail = TRUE, !.rerr = e]

\* Call `me` has taken a step: every other call has seen a mutation
\* interleaved.
Touch(cs, me) ==
  [k \in DOMAIN cs |-> IF k = me \/ cs[k].st = "idle" THEN cs[k]
                     ELSE [cs[k] EXCEPT !.others = TRUE, !.snap = <<>>]]

\* Snapshot m has been applied to the mirror.
SnapTouch(cs, m) ==
  [k \in DOMAIN cs |->
     IF cs[k].st = "idle" THEN cs[k]
     ELSE IF cs[k].st = "pending" /\ ~cs[k].others
       THEN [cs[k] EXCEPT !.snap = <<m>>]
     ELSE [cs[k] EXCEPT !.others = TRUE, !.snap = <<>>]]

\* Nothing has been interleaved with the call, nor followed it.
Clean(c) == c.snap = <<>> /\ ~c.others

\* ------------------------------------------------- useTurboCollection (hc)

\* Fault: the updater returns the previous map, so the change is never seen.
MapSet_ReturnsPrev(m, id, v) == m

\* updated.set(id, doc) on a copy of the map.
MapSet(m, id, v) == [m EXCEPT ![id] = v]

\* updated.delete(id) on a copy of the map.
MapDelete(m, id) == [m EXCEPT ![id] = Absent]

\* tryFindById: docsById.get(id) ?? null.
HC_tryFindById(m, id) == m[id]

\* createDoc: the optimistic setDocsById before the await.
HC_createDoc(c, id, v) ==
  /\ comp = "hc"
  /\ calls[c].st = "idle"
  /\ hc_docsById' = MapSet(hc_docsById, id, v)
  /\ calls' = Touch([calls EXCEPT ![c] =
                  PendingCall("createDoc", <<id>>, <<v>>, <<>>, hc_docsById)], c)
  /\ UNCHANGED <<comp, authVars, ghostVars, hc_isReady, csVars, dsVars, hdVars>>

\* createDoc rollback: updated.delete(newDoc.id).
HC_createDocRollback(m, id) == MapDelete(m, id)

\* createDoc after `await api.createDoc(...)`.
HC_createDocDone(c, r) ==
  /\ comp = "hc"
  /\ calls[c].st = "pending" /\ calls[c].op = "createDoc"
  /\ IF r # "ok"
       THEN /\ hc_docsById' = HC_createDocRollback(hc_docsById, calls[c].ids[1])
            /\ calls' = Touch([calls EXCEPT ![c] =
                            Fail([calls[c] EXCEPT !.rerr = r], r)], c)
       ELSE /\ UNCHANGED hc_docsById
            /\ calls' = Touch([calls EXCEPT ![c] =
                            Success(calls[c], calls[c].vals)], c)
  /\ UNCHANGED <<comp, authVars, ghostVars, hc_isReady, csVars, dsVars, hdVars>>

\* updateDoc: the not-found check, then the optimistic set before the await.
HC_updateDoc(c, id, v) ==
  /\ comp = "hc"
  /\ calls[c].st = "idle"
  /\ LET current == HC_tryFindById(hc_docsById, id) IN
     IF current = Absent
       THEN /\ calls' = Touch([calls EXCEPT ![c] =
                   Fail(LocalCall("updateDoc", <<id>>, <<v>>, hc_docsById),
                        NotFound)], c)
            /\ UNCHANGED hc_docsById
       ELSE /\ hc_docsById' = MapSet(hc_docsById, id, v)
            /\ calls' = Touch([calls EXCEPT ![c] =
                   PendingCall("updateDoc", <<id>>, <<v>>, <<current>>,
                               hc_docsById)], c)
  /\ UNCHANGED <<comp, authVars, ghostVars, hc_isReady, csVars, dsVars, hdVars>>

\* updateDoc rollback: updated.set(id, previousDoc).
HC_updateDocRollback_Skips(m, id, previousDoc) == m
HC_updateDocRollback(m, id, previousDoc) == MapSet(m, id, previousDoc)

\* updateDoc after `await api.updateDoc(...)`.
HC_updateDocDone(c, r) ==
  /\ comp = "hc"
  /\ calls[c].st = "pending" /\ calls[c].op = "updateDoc"
  /\ IF r # "ok"
       THEN /\ hc_docsById' = HC_updateDocRollback(hc_docsById, calls[c].ids[1],
                                                   calls[c].prev[1])
            /\ calls' = Touch([calls EXCEPT ![c] =
                            Fail([calls[c] EXCEPT !.rerr = r], r)], c)
       ELSE /\ UNCHANGED hc_docsById
            /\ calls' = Touch([calls EXCEPT ![c] =
                            Success(calls[c], calls[c].vals)], c)
  /\ UNCHANGED <<comp, authVars, ghostVars, hc_isReady, csVars, dsVars, hdVars>>

\* upsertDoc: no existence check; the optimistic set before the await.
HC_upsertDoc(c, id, v) ==
  /\ comp = "hc"
  /\ calls[c].st = "idle"
  /\ LET current == HC_tryFindById(hc_docsById, id) IN
     /\ hc_docsById' = MapSet(hc_docsById, id, v)
     /\ calls' = Touch([calls EXCEPT ![c] =
            PendingCall("upsertDoc", <<id>>, <<v>>, <<current>>, hc_docsById)], c)
  /\ UNCHANGED <<comp, authVars, ghostVars, hc_isReady, csVars, dsVars, hdVars>>

\* upsertDoc rollback: set the previous doc, or delete when there was none.
HC_upsertDocRollback(m, id, previousDoc) ==
  IF previousDoc # Absent THEN MapSet(m, id, previousDoc) ELSE MapDelete(m, id)

\* upsertDoc after `await api.createDoc({..., merge: true})`.
HC_upsertDocDone(c, r) ==
  /\ comp = "hc"
  /\ calls[c].st = "pending" /\ calls[c].op = "upsertDoc"
  /\ IF r # "ok"
       THEN /\ hc_docsById' = HC_upsertDocRollback(hc_docsById, calls[c].ids[1],
                                                   calls[c].prev[1])
            /\ calls' = Touch([calls EXCEPT ![c] =
                            Fail([calls[c] EXCEPT !.rerr = r], r)], c)
       ELSE /\ UNCHANGED hc_docsById
            /\ calls' = Touch([calls EXCEPT ![c] =
                            Success(calls[c], calls[c].vals)], c)
  /\ UNCHANGED <<comp, authVars, ghostVars, hc_isReady, csVars, dsVars, hdVars>>

\* deleteDoc: the not-found check, then the optimistic removal.
HC_deleteDoc(c, id) ==
  /\ comp = "hc"
  /\ calls[c].st = "idle"
  /\ LET current == HC_tryFindById(hc_docsById, id) IN
     IF current = Absent
       THEN /\ calls' = Touch([calls EXCEPT ![c] =
                   Fail(LocalCall("deleteDoc", <<id>>, <<>>, hc_docsById),
                        NotFound)], c)
            /\ UNCHANGED hc_docsById
       ELSE /\ hc_docsById' = MapDelete(hc_docsById, id)
            /\ calls' = Touch([calls EXCEPT ![c] =
                   PendingCall("deleteDoc", <<id>>, <<>>, <<current>>,
                               hc_docsById)], c)
  /\ UNCHANGED <<comp, authVars, ghostVars, hc_isReady, csVars, dsVars, hdVars>>

\* deleteDoc rollback: updated.set(id, current).
HC_deleteDocRollback(m, id, current) == MapSet(m, id, current)

\* deleteDoc after `await api.deleteDoc(id)`.
HC_deleteDocDone(c, r) ==
  /\ comp = "hc"
  /\ calls[c].st = "pending" /\ calls[c].op = "deleteDoc"
  /\ IF r # "ok"
       THEN /\ hc_docsById' = HC_deleteDocRollback(hc_docsById, calls[c].ids[1],
                                                   calls[c].prev[1])
            /\ calls' = Touch([calls EXCEPT ![c] =
                            Fail([calls[c] EXCEPT !.rerr = r], r)], c)
       ELSE /\ UNCHANGED hc_docsById
            /\ calls' = Touch([calls EXCEPT ![c] = Success(calls[c], <<>>)], c)
  /\ UNCHANGED <<comp, authVars, ghostVars, hc_isReady, csVars, dsVars, hdVars>>

\* forEach(doc => updated.set(doc.id, doc)), in the order of the items.
RECURSIVE SetAll(_, _)
SetAll(m, items) ==
  IF items = <<>> THEN m
  ELSE SetAll(MapSet(m, Head(items).id, Head(items).val), Tail(items))

\* forEach(id => updated.delete(id)).
RECURSIVE DeleteAll(_, _)
DeleteAll(m, ids) ==
  IF ids = <<>> THEN m ELSE DeleteAll(MapDelete(m, Head(ids)), Tail(ids))

\* The identities, and the contents, of the items of a batch.
ItemIds(items) == [k \in 1 .. Len(items) |-> items[k].id]
ItemVals(items) == [k \in 1 .. Len(items) |-> items[k].val]

\* batchResults.find(r => !isSuccess(r)): the first staging failure, or "ok".
FirstFailure(stage) ==
  IF \E k \in 1 .. Len(stage) : stage[k] # "ok"
    THEN stage[CHOOSE k \in 1 .. Len(stage) :
                 /\ stage[k] # "ok"
                 /\ \A j \in 1 .. k - 1 : stage[j] = "ok"]
    ELSE "ok"

\* Whether some id of the loop is missing from the map (tryFindById is null).
HC_anyMissing(m, ids) == \E k \in 1 .. Len(ids) : HC_tryFindById(m, ids[k]) = Absent

\* previousDocs: the current doc of every id of the call (Absent: no entry).
HC_previousDocs(m, ids) ==
  [i \in Ids |-> IF \E k \in 1 .. Len(ids) : ids[k] = i THEN m[i] ELSE Absent]

\* previousDocs.forEach((doc, id) => updated.set(id, doc)).
HC_restorePrevious(m, previousDocs) ==
  [i \in Ids |-> IF previousDocs[i] # Absent THEN previousDocs[i] ELSE m[i]]

\* createDocs rollback: newDocs.forEach(doc => updated.delete(doc.id)).
HC_createDocsRollback(m, ids) == DeleteAll(m, ids)

\* createDocs: optimistic set of every new doc, staging of every doc in one
\* batch; a staging failure rolls back and returns, else commit is awaited.
HC_createDocs(c, items, stage) ==
  /\ comp = "hc"
  /\ calls[c].st = "idle"
  /\ LET ids == ItemIds(items)
         applied == SetAll(hc_docsById, items)
         failed == FirstFailure(stage)
     IN IF failed # "ok"
          THEN /\ hc_docsById' = HC_createDocsRollback(applied, ids)
               /\ calls' = Touch([calls EXCEPT ![c] =
                      Fail(StagingFailed(LocalCall("createDocs", ids,
                                      ItemVals(items), hc_docsById), failed),
                           failed)], c)
          ELSE /\ hc_docsById' = applied
               /\ calls' = Touch([calls EXCEPT ![c] =
                      PendingCall("createDocs", ids, ItemVals(items), <<>>,
                                  hc_docsById)], c)
  /\ UNCHANGED <<comp, authVars, ghostVars, hc_isReady, csVars, dsVars, hdVars>>

\* createDocs after `await batch.commit()`: resolved, or the catch block.
HC_createDocsDone(c, r) ==
  /\ comp = "hc"
  /\ calls[c].st = "pending" /\ calls[c].op = "createDocs"
  /\ IF r # "ok"
       THEN /\ hc_docsById' = HC_createDocsRollback(hc_docsById, calls[c].ids)
            /\ calls' = Touch([calls EXCEPT ![c] =
                            Fail([calls[c] EXCEPT !.rerr = r], r)], c)
       ELSE /\ UNCHANGED hc_docsById
            /\ calls' = Touch([calls EXCEPT ![c] =
                            Success(calls[c], calls[c].vals)], c)
  /\ UNCHANGED <<comp, authVars, ghostVars, hc_isReady, csVars, dsVars, hdVars>>

\* updateDocs: the not-found loop, the optimistic set, the staging.
HC_updateDocs(c, items, stage) ==
  /\ comp = "hc"
  /\ calls[c].st = "idle"
  /\ LET ids == ItemIds(items)
         previousDocs == HC_previousDocs(hc_docsById, ids)
         applied == SetAll(hc_docsById, items)
         failed == FirstFailure(stage)
     IN IF HC_anyMissing(hc_docsById, ids)
          THEN /\ calls' = Touch([calls EXCEPT ![c] =
                      Fail(LocalCall("updateDocs", ids, ItemVals(items),
                                     hc_docsById), NotFound)], c)
               /\ UNCHANGED hc_docsById
          ELSE IF failed # "ok"
          THEN /\ hc_docsById' = HC_restorePrevious(applied, previousDocs)
               /\ calls' = Touch([calls EXCEPT ![c] =
                      Fail(StagingFailed(LocalCall("updateDocs", ids,
                                      ItemVals(items), hc_docsById), failed),
                           failed)], c)
          ELSE /\ hc_docsById' = applied
               /\ calls' = Touch([calls EXCEPT ![c] =
                      PendingCall("updateDocs", ids, ItemVals(items),
                                  <<previousDocs>>, hc_docsById)], c)
  /\ UNCHANGED <<comp, authVars, ghostVars, hc_isReady, csVars, dsVars, hdVars>>

\* updateDocs after `await batch.commit()`.
HC_updateDocsDone(c, r) ==
  /\ comp = "hc"
  /\ calls[c].st = "pending" /\ calls[c].op = "updateDocs"
  /\ IF r # "ok"
       THEN /\ hc_docsById' = HC_restorePrevious(hc_docsById, calls[c].prev[1])
            /\ calls' = Touch([calls EXCEPT ![c] =
                            Fail([calls[c] EXCEPT !.rerr = r], r)], c)
       ELSE /\ UNCHANGED hc_docsById
            /\ calls' = Touch([calls EXCEPT ![c] =
                            Success(calls[c], calls[c].vals)], c)
  /\ UNCHANGED <<comp, authVars, ghostVars, hc_isReady, csVars, dsVars, hdVars>>

\* deleteDocs: the not-found loop, the optimistic removal, the staging.
HC_deleteDocs(c, ids, stage) ==
  /\ comp = "hc"
  /\ calls[c].st = "idle"
  /\ LET previousDocs == HC_previousDocs(hc_docsById, ids)
         applied == DeleteAll(hc_docsById, ids)
         failed == FirstFailure(stage)
     IN IF HC_anyMissing(hc_docsById, ids)
          THEN /\ calls' = Touch([calls EXCEPT ![c] =
                      Fail(LocalCall("deleteDocs", ids, <<>>, hc_docsById),
                           NotFound)], c)
               /\ UNCHANGED hc_docsById
          ELSE IF failed # "ok"
          THEN /\ hc_docsById' = HC_restorePrevious(applied, previousDocs)
               /\ calls' = Touch([calls EXCEPT ![c] =
                      Fail(StagingFailed(LocalCall("deleteDocs", ids, <<>>,
                                      hc_docsById), failed), failed)], c)
          ELSE /\ hc_docsById' = applied
               /\ calls' = Touch([calls EXCEPT ![c] =
                      PendingCall("deleteDocs", ids, <<>>, <<previousDocs>>,
                                  hc_docsById)], c)
  /\ UNCHANGED <<comp, authVars, ghostVars, hc_isReady, csVars, dsVars, hdVars>>

\* deleteDocs after `await batch.commit()`.
HC_deleteDocsDone(c, r) ==
  /\ comp = "hc"
  /\ calls[c].st = "pending" /\ calls[c].op = "deleteDocs"
  /\ IF r # "ok"
       THEN /\ hc_docsById' = HC_restorePrevious(hc_docsById, calls[c].prev[1])
            /\ calls' = Touch([calls EXCEPT ![c] =
                            Fail([calls[c] EXCEPT !.rerr = r], r)], c)
       ELSE /\ UNCHANGED hc_docsById
            /\ calls' = Touch([calls EXCEPT ![c] = Success(calls[c], <<>>)], c)
  /\ UNCHANGED <<comp, authVars, ghostVars, hc_isReady, csVars, dsVars, hdVars>>

\* The stream effect's onData: the snapshot replaces the whole map.
HC_snapshot(m) ==
  /\ comp = "hc"
  /\ hc_docsById' = m
  /\ hc_isReady' = TRUE
  /\ calls' = SnapTouch(calls, m)
  /\ UNCHANGED <<comp, authVars, ghostVars, csVars, dsVars, hdVars>>

\* --------------------------------------------- TurboCollectionService (cs)

\* Fault: a lookup that never throws (tryFindById in place of findById).
CS_findByIdNeverThrows(m, id) == FALSE

\* findById throws when the id is not in the map.
CS_findByIdThrows(m, id) == m[id] = Absent

\* Fault: a mutator without its catch clause; the error rejects the promise.
CS_catchMissing(c, e) == [c EXCEPT !.st = "done", !.res = "throw", !.err = e]

\* `catch (error) { return fail(error); }` of every remote mutator.
CS_catch(c, e) == Fail(c, e)

\* `if (isFail(response)) return fail(response.error, ...)`: no local change.
CS_onFail(c, r) == Fail([c EXCEPT !.rerr = r], r)

\* createLocalDoc: updateCurrent(map => set(pDoc.id, pDoc)).
CS_createLocalDoc(m, id, v) == MapSet(m, id, v)

\* deleteLocalDoc: updateCurrent(map => delete(id)).
CS_deleteLocalDoc(m, id) == MapDelete(m, id)

\* createDoc: createLocalDoc, then `await api.createDoc`.
CS_createDoc(c, id, v) ==
  /\ comp = "cs"
  /\ calls[c].st = "idle"
  /\ cs_docsById' = CS_createLocalDoc(cs_docsById, id, v)
  /\ calls' = Touch([calls EXCEPT ![c] =
                  PendingCall("createDoc", <<id>>, <<v>>, <<>>, cs_docsById)], c)
  /\ UNCHANGED <<comp, authVars, ghostVars, hcVars, cs_docsInformer, cs_isReadyResolved, cs_isLoaded,
                 cs_isLoading, cs_unsubscribe, cs_listeners, cs_handlers, cs_loadPromise,
                 dsVars, hdVars>>

\* updateDoc: updateLocalDoc (findById may throw into the catch), then
\* `await api.updateDoc`.
CS_updateDoc(c, id, v) ==
  /\ comp = "cs"
  /\ calls[c].st = "idle"
  /\ IF CS_findByIdThrows(cs_docsById, id)
       THEN /\ calls' = Touch([calls EXCEPT ![c] =
                   CS_catch(LocalCall("updateDoc", <<id>>, <<v>>, cs_docsById),
                            NotFound)], c)
            /\ UNCHANGED cs_docsById
       ELSE /\ cs_docsById' = MapSet(cs_docsById, id, v)
            /\ calls' = Touch([calls EXCEPT ![c] =
                   PendingCall("updateDoc", <<id>>, <<v>>, <<>>, cs_docsById)], c)
  /\ UNCHANGED <<comp, authVars, ghostVars, hcVars, cs_docsInformer, cs_isReadyResolved, cs_isLoaded,
                 cs_isLoading, cs_unsubscribe, cs_listeners, cs_handlers, cs_loadPromise,
                 dsVars, hdVars>>

\* deleteDoc: deleteLocalDoc, then `await api.deleteDoc`; no existence check.
CS_deleteDoc(c, id) ==
  /\ comp = "cs"
  /\ calls[c].st = "idle"
  /\ cs_docsById' = CS_deleteLocalDoc(cs_docsById, id)
  /\ calls' = Touch([calls EXCEPT ![c] =
                  PendingCall("deleteDoc", <<id>>, <<>>, <<>>, cs_docsById)], c)
  /\ UNCHANGED <<comp, authVars, ghostVars, hcVars, cs_docsInformer, cs_isReadyResolved, cs_isLoaded,
                 cs_isLoading, cs_unsubscribe, cs_listeners, cs_handlers, cs_loadPromise,
                 dsVars, hdVars>>

\* upsertDoc: upsertLocalDoc, then `await api.createDoc({..., merge: true})`.
CS_upsertDoc(c, id, v) ==
  /\ comp = "cs"
  /\ calls[c].st = "idle"
  /\ cs_docsById' = MapSet(cs_docsById, id, v)
  /\ calls' = Touch([calls EXCEPT ![c] =
                  PendingCall("upsertDoc", <<id>>, <<v>>, <<>>, cs_docsById)], c)
  /\ UNCHANGED <<comp, authVars, ghostVars, hcVars, cs_docsInformer, cs_isReadyResolved, cs_isLoaded,
                 cs_isLoading, cs_unsubscribe, cs_listeners, cs_handlers, cs_loadPromise,
                 dsVars, hdVars>>

\* createDoc / updateDoc / upsertDoc / deleteDoc after their await: the
\* response is turned into the result; the map is not touched.
CS_singleDone(c, r) ==
  /\ comp = "cs"
  /\ calls[c].st = "pending"
  /\ calls[c].op \in {"createDoc", "updateDoc", "upsertDoc", "deleteDoc"}
  /\ calls' = Touch([calls EXCEPT ![c] =
                  IF r # "ok" THEN CS_onFail(calls[c], r)
                  ELSE Success(calls[c], calls[c].vals)], c)
  /\ UNCHANGED <<comp, authVars, ghostVars, hcVars, csVars, dsVars, hdVars>>

\* updateLocalDocs: updateLocalDoc per id in order; findById throws at the
\* first id that is missing, and what was set before it stays set.
RECURSIVE CS_updateLocalDocs(_, _)
CS_updateLocalDocs(m, items) ==
  IF items = <<>> THEN [map |-> m, threw |-> FALSE]
  ELSE IF CS_findByIdThrows(m, Head(items).id) THEN [map |-> m, threw |-> TRUE]
  ELSE CS_updateLocalDocs(MapSet(m, Head(items).id, Head(items).val), Tail(items))

\* The local step of each batch mutator: the map it leaves, and whether it
\* threw.
CS_batchLocal(op, m, items) ==
  CASE op = "createDocs" -> [map |-> SetAll(m, items), threw |-> FALSE]
    [] op = "upsertDocs" -> [map |-> SetAll(m, items), threw |-> FALSE]
    [] op = "deleteDocs" -> [map |-> DeleteAll(m, ItemIds(items)), threw |-> FALSE]
    [] op = "updateDocs" -> CS_updateLocalDocs(m, items)

\* createDocs / updateDocs / deleteDocs / upsertDocs up to `await
\* batch.commit()`: the local step, then the staging loop, which returns the
\* first staging failure.
CS_batch(c, op, items, stage) ==
  /\ comp = "cs"
  /\ calls[c].st = "idle"
  /\ LET ids == ItemIds(items)
         vs == IF op = "deleteDocs" THEN <<>> ELSE ItemVals(items)
         local == CS_batchLocal(op, cs_docsById, items)
         failed == FirstFailure(stage)
     IN /\ cs_docsById' = local.map
        /\ calls' = Touch([calls EXCEPT ![c] =
              IF local.threw
                THEN CS_catch(LocalCall(op, ids, vs, cs_docsById), NotFound)
              ELSE IF failed # "ok"
                THEN CS_onFail(StagingFailed(LocalCall(op, ids, vs, cs_docsById),
                                             failed), failed)
              ELSE PendingCall(op, ids, vs, <<>>, cs_docsById)], c)
  /\ UNCHANGED <<comp, authVars, ghostVars, hcVars, cs_docsInformer, cs_isReadyResolved, cs_isLoaded,
                 cs_isLoading, cs_unsubscribe, cs_listeners, cs_handlers, cs_loadPromise,
                 dsVars, hdVars>>

CS_createDocs(c, items, stage) == CS_batch(c, "createDocs", items, stage)

CS_updateDocs(c, items, stage) == CS_batch(c, "updateDocs", items, stage)

CS_deleteDocs(c, items, stage) == CS_batch(c, "deleteDocs", items, stage)

CS_upsertDocs(c, items, stage) == CS_batch(c, "upsertDocs", items, stage)

\* A batch mutator after `await batch.commit()`: resolved, or rejected into
\* the catch.
CS_batchDone(c, r) ==
  /\ comp = "cs"
  /\ calls[c].st = "pending"
  /\ calls[c].op \in {"createDocs", "updateDocs", "deleteDocs", "upsertDocs"}
  /\ calls' = Touch([calls EXCEPT ![c] =
                  IF r # "ok" THEN CS_catch([calls[c] EXCEPT !.rerr = r], r)
                  ELSE Success(calls[c], calls[c].vals)], c)
  /\ UNCHANGED <<comp, authVars, ghostVars, hcVars, csVars, dsVars, hdVars>>

\* api.genId: an identity no document has (Firestore's auto-id), here the
\* first one the map holds no entry for.
HasFreeId(m) == \E i \in Ids : m[i] = Absent
IdsInOrder == <<"t1", "t2">>
GenId(m) ==
  IdsInOrder[CHOOSE k \in 1 .. Len(IdsInOrder) :
               /\ m[IdsInOrder[k]] = Absent
               /\ \A j \in 1 .. k - 1 : m[IdsInOrder[j]] # Absent]

\* useTurboCollection.createDocs with transforms that return an entity whose
\* id is vars.id: `vars` is made once and handed to every transform.
HC_varsItems(m, vals) == [k \in 1 .. Len(vals) |-> [id |-> GenId(m), val |-> vals[k]]]

\* TurboCollectionService.createLocalDocs with such transforms: every
\* createLocalDoc calls turboVars(), after the documents before it are set.
RECURSIVE CS_varsItems(_, _)
CS_varsItems(m, vals) ==
  IF vals = <<>> THEN <<>>
  ELSE <<[id |-> GenId(m), val |-> Head(vals)]>>
         \o CS_varsItems(MapSet(m, GenId(m), Head(vals)), Tail(vals))

\* The number of identities the map can still generate for a batch.
FreeIds(m) == Cardinality({i \in Ids : m[i] = Absent})

\* createDocs of both mirrors with transforms that take their id from vars.
HC_createDocsOfVars(c, vals, stage) ==
  /\ HasFreeId(hc_docsById)
  /\ HC_createDocs(c, HC_varsItems(hc_docsById, vals), stage)

CS_createDocsOfVars(c, vals, stage) ==
  /\ Len(vals) <= FreeIds(cs_docsById)
  /\ CS_createDocs(c, CS_varsItems(cs_docsById, vals), stage)

\* The last snapshot a single-document mirror applied: the parity of the
\* number applied so far and the content delivered (Absent when the
\* snapshot reports no document).
NoSnapshot == [n |-> 0, raw |-> "none"]
NextSnapshot(a, v) == [n |-> 1 - a.n, raw |-> v]

\* What a collection listener delivers: entities with distinct identities,
\* here with the content the remote collection holds for them.
RemoteDocs == {d \in Docs : d.val = "v1"}
Snapshots ==
  {docs \in SUBSET RemoteDocs : \A d1, d2 \in docs : d1.id = d2.id => d1 = d2}

\* new Map(docs.map(d => [d.id, d])).
MapOfDocs(docs) ==
  [i \in Ids |-> IF \E d \in docs : d.id = i
                 THEN (CHOOSE d \in docs : d.id = i).val
                 ELSE Absent]

\* stopStream: this._unsubscribe?.() releases the listener of the handle.
CS_stopStreamListeners(live, unsub) == live \ {unsub}

\* Invoking handle `unsub` releases a listener that is no longer live.
CS_releasesDead(live, unsub) == unsub # 0 /\ unsub \notin live

\* The handle api.streamAllWithConverter / api.streamByQuery returns: a
\* listener that is not live and not referred to.
FreshListener(live, unsub) ==
  CHOOSE h \in 1 .. MaxListeners :
    /\ h \notin live \cup {unsub}
    /\ \A g \in 1 .. MaxListeners : g \notin live \cup {unsub} => h <= g

\* What a step did: ev the step, nr the retry count before it, sched a
\* retry timer was scheduled, done the arguments onDone was invoked with,
\* data the number of onData(null, null) invocations, rel the data
\* subscription whose handle a sign-out, reset or dispose invoked (0: none
\* was held).  A collection stream records its error the same way.
NoDone == [n |-> -1, max |-> -1]
Event(ev, nr, sched, done, data) ==
  [ev |-> ev, nr |-> nr, sched |-> sched, done |-> done, data |-> data,
   rel |-> 0]
NoEvent == Event("init", 0, FALSE, NoDone, 0)

\* The body shared by stream() and streamByQuery(): stopStream, then the
\* new listener is installed and its handle kept; no error of it has been
\* reported yet.
CS_install ==
  LET live == CS_stopStreamListeners(cs_listeners, cs_unsubscribe) IN
  /\ \E h \in 1 .. MaxListeners : h \notin live \cup {cs_unsubscribe}
  /\ cs_listeners' = live \cup {FreshListener(live, cs_unsubscribe)}
  /\ cs_unsubscribe' = FreshListener(live, cs_unsubscribe)
  /\ releasedTwice' = (releasedTwice \/ CS_releasesDead(cs_listeners, cs_unsubscribe))
  /\ last' = NoEvent

\* stream().
CS_stream ==
  /\ comp = "cs"
  /\ CS_install
  /\ UNCHANGED <<comp, authRest, lastApplied, calls, hcVars, cs_docsById, cs_docsInformer,
                 cs_isReadyResolved, cs_isLoaded, cs_isLoading, cs_handlers,
                 cs_loadPromise, dsVars, hdVars>>

\* streamByQuery(queryDef).
CS_streamByQuery ==
  /\ comp = "cs"
  /\ CS_install
  /\ UNCHANGED <<comp, authRest, lastApplied, calls, hcVars, cs_docsById, cs_docsInformer,
                 cs_isReadyResolved, cs_isLoaded, cs_isLoading, cs_handlers,
                 cs_loadPromise, dsVars, hdVars>>

\* stopStream().
CS_stopStream ==
  /\ comp = "cs"
  /\ cs_listeners' = CS_stopStreamListeners(cs_listeners, cs_unsubscribe)
  /\ cs_unsubscribe' = 0
  /\ releasedTwice' = (releasedTwice \/ CS_releasesDead(cs_listeners, cs_unsubscribe))
  /\ UNCHANGED <<comp, authVars, lastApplied, calls, hcVars, cs_docsById, cs_docsInformer,
                 cs_isReadyResolved, cs_isLoaded, cs_isLoading, cs_handlers,
                 cs_loadPromise, dsVars, hdVars>>

\* load(): nothing when loaded or loading; else the stream is started and
\* the call waits for isReady (its continuation clears _loadPromise, at
\* once when isReady is already resolved).
CS_load ==
  /\ comp = "cs"
  /\ IF cs_isLoaded \/ cs_loadPromise
       THEN UNCHANGED <<cs_listeners, cs_unsubscribe, releasedTwice,
                        cs_isLoading, cs_loadPromise, last>>
       ELSE /\ cs_isLoading' = TRUE
            /\ CS_install
            /\ cs_loadPromise' = ~cs_isReadyResolved
  /\ UNCHANGED <<comp, authRest, lastApplied, calls, hcVars, cs_docsById, cs_docsInformer,
                 cs_isReadyResolved, cs_isLoaded, cs_handlers, dsVars, hdVars>>

\* A live listener delivers a snapshot: _handleStreamData builds the map
\* and suspends in `await this.beforeSync?.(docs)`.
CS_snapshot(h, docs) ==
  /\ comp = "cs"
  /\ h \in cs_listeners
  /\ Len(cs_handlers) < MaxHandlers
  /\ cs_handlers' = Append(cs_handlers, [docs |-> docs, map |-> MapOfDocs(docs)])
  /\ UNCHANGED <<comp, authVars, ghostVars, calls, hcVars, cs_docsById, cs_docsInformer,
                 cs_isReadyResolved, cs_isLoaded, cs_isLoading, cs_unsubscribe,
                 cs_listeners, cs_loadPromise, dsVars, hdVars>>

\* The sequence without its k-th element.
RemoveAt(seq, k) == SubSeq(seq, 1, k - 1) \o SubSeq(seq, k + 1, Len(seq))

\* _handleStreamData after beforeSync: both informers are replaced, the
\* flags set, the service marked ready (a waiting load() then clears
\* _loadPromise); afterSync follows.
CS_handleStreamData(k) ==
  /\ comp = "cs"
  /\ k \in 1 .. Len(cs_handlers)
  /\ cs_docsById' = cs_handlers[k].map
  /\ cs_docsInformer' = MapOfDocs(cs_handlers[k].docs)
  /\ cs_isLoaded' = TRUE
  /\ cs_isLoading' = FALSE
  /\ cs_isReadyResolved' = TRUE
  /\ cs_loadPromise' = FALSE
  /\ cs_handlers' = RemoveAt(cs_handlers, k)
  /\ calls' = SnapTouch(calls, cs_handlers[k].map)
  /\ UNCHANGED <<comp, authVars, ghostVars, hcVars, cs_unsubscribe, cs_listeners,
                 dsVars, hdVars>>

\* The listener h reports an error: the error callback of stream() calls
\* onError and nothing else.
CS_streamError(h) ==
  /\ comp = "cs"
  /\ h \in cs_listeners
  /\ last' = [NoEvent EXCEPT !.ev = "error"]
  /\ UNCHANGED <<comp, authRest, ghostVars, calls, hcVars, csVars, dsVars, hdVars>>

\* dispose(): stopStream, the informers are disposed, the flags cleared and
\* the ready promise resolved.
CS_dispose ==
  /\ comp = "cs"
  /\ cs_listeners' = CS_stopStreamListeners(cs_listeners, cs_unsubscribe)
  /\ cs_unsubscribe' = 0
  /\ releasedTwice' = (releasedTwice \/ CS_releasesDead(cs_listeners, cs_unsubscribe))
  /\ cs_isLoaded' = FALSE
  /\ cs_isLoading' = FALSE
  /\ cs_loadPromise' = FALSE
  /\ cs_isReadyResolved' = TRUE
  /\ UNCHANGED <<comp, authVars, lastApplied, calls, hcVars, cs_docsById, cs_docsInformer,
                 cs_handlers, dsVars, hdVars>>

\* ----------------------------------------------- TurboDocumentService (ds)

\* `if (isFail(response)) return fail(response.error, ...)`: no local change.
DS_onFail(c, r) == Fail([c EXCEPT !.rerr = r], r)

\* `if (!current)` of updateDoc and deleteDoc.
DS_isMissing(d) == d = NullDoc

\* createDoc: createLocalDoc (the doc replaces the held one), then the await.
DS_createDoc(c, d) ==
  /\ comp = "ds"
  /\ calls[c].st = "idle"
  /\ ds_doc' = d
  /\ calls' = Touch([calls EXCEPT ![c] =
                  PendingCall("createDoc", <<d.id>>, <<d>>, <<>>, ds_doc)], c)
  /\ UNCHANGED <<comp, authVars, ghostVars, hcVars, csVars, ds_isReadyResolved, ds_unsubscribe,
                 ds_listeners, hdVars>>

\* updateDoc: the existence check, updateLocalDoc, then the await.
DS_updateDoc(c, v) ==
  /\ comp = "ds"
  /\ calls[c].st = "idle"
  /\ LET current == ds_doc
         pDoc == [id |-> current.id, val |-> v]
     IN IF DS_isMissing(current)
          THEN /\ calls' = Touch([calls EXCEPT ![c] =
                      Fail(LocalCall("updateDoc", <<>>, <<>>, ds_doc),
                           NotFound)], c)
               /\ UNCHANGED ds_doc
          ELSE /\ ds_doc' = pDoc
               /\ calls' = Touch([calls EXCEPT ![c] =
                      PendingCall("updateDoc", <<current.id>>, <<pDoc>>, <<>>,
                                  ds_doc)], c)
  /\ UNCHANGED <<comp, authVars, ghostVars, hcVars, csVars, ds_isReadyResolved, ds_unsubscribe,
                 ds_listeners, hdVars>>

\* deleteDoc: the existence check, deleteLocalDoc, then the await.
DS_deleteDoc(c) ==
  /\ comp = "ds"
  /\ calls[c].st = "idle"
  /\ LET current == ds_doc IN
     IF DS_isMissing(current)
       THEN /\ calls' = Touch([calls EXCEPT ![c] =
                   Fail(LocalCall("deleteDoc", <<>>, <<>>, ds_doc), NotFound)], c)
            /\ UNCHANGED ds_doc
       ELSE /\ ds_doc' = NullDoc
            /\ calls' = Touch([calls EXCEPT ![c] =
                   PendingCall("deleteDoc", <<current.id>>, <<>>, <<>>, ds_doc)], c)
  /\ UNCHANGED <<comp, authVars, ghostVars, hcVars, csVars, ds_isReadyResolved, ds_unsubscribe,
                 ds_listeners, hdVars>>

\* upsertDoc: upsertLocalDoc (no existence check), then the await.
DS_upsertDoc(c, id, v) ==
  /\ comp = "ds"
  /\ calls[c].st = "idle"
  /\ LET pDoc == [id |-> id, val |-> v] IN
     /\ ds_doc' = pDoc
     /\ calls' = Touch([calls EXCEPT ![c] =
                     PendingCall("upsertDoc", <<id>>, <<pDoc>>, <<>>, ds_doc)], c)
  /\ UNCHANGED <<comp, authVars, ghostVars, hcVars, csVars, ds_isReadyResolved, ds_unsubscribe,
                 ds_listeners, hdVars>>

\* Any of the four after its await: the response is turned into the result;
\* the held doc is not touched.
DS_done(c, r) ==
  /\ comp = "ds"
  /\ calls[c].st = "pending"
  /\ calls' = Touch([calls EXCEPT ![c] =
                  IF r # "ok" THEN DS_onFail(calls[c], r)
                  ELSE Success(calls[c], calls[c].vals)], c)
  /\ UNCHANGED <<comp, authVars, ghostVars, hcVars, csVars, dsVars, hdVars>>

\* The listeners left when one listener of document `id` is released.
RECURSIVE RemoveOne(_, _)
RemoveOne(ls, id) ==
  IF ls = <<>> THEN <<>>
  ELSE IF Head(ls) = id THEN Tail(ls)
  ELSE <<Head(ls)>> \o RemoveOne(Tail(ls), id)

\* stopStream: this._unsubscribe?.(); this._unsubscribe = null.
DS_stopStreamListeners(ls, unsub) == IF unsub = "none" THEN ls ELSE RemoveOne(ls, unsub)

\* Document `id` has a live listener among ls.
HasListener(ls, id) == \E k \in 1 .. Len(ls) : ls[k] = id

\* Invoking handle `unsub` releases a listener that is no longer live.
DS_releasesDead(ls, unsub) == unsub # "none" /\ ~HasListener(ls, unsub)

\* Fault: stopStream invokes the handle and keeps it.
DS_stopStreamKeepsHandle(unsub) == unsub

\* stopStream: `this._unsubscribe = null` after the handle was invoked.
DS_stopStreamHandle(unsub) == "none"

\* stream(documentId): stopStream, then the new listener is installed.
DS_stream(id) ==
  /\ comp = "ds"
  /\ Len(ds_listeners) < MaxListeners
  /\ ds_listeners' = Append(DS_stopStreamListeners(ds_listeners, ds_unsubscribe), id)
  /\ ds_unsubscribe' = id
  /\ releasedTwice' = (releasedTwice \/ DS_releasesDead(ds_listeners, ds_unsubscribe))
  /\ UNCHANGED <<comp, authVars, lastApplied, calls, hcVars, csVars, ds_doc,
                 ds_isReadyResolved, hdVars>>

DS_stopStream ==
  /\ comp = "ds"
  /\ ds_listeners' = DS_stopStreamListeners(ds_listeners, ds_unsubscribe)
  /\ ds_unsubscribe' = DS_stopStreamHandle(ds_unsubscribe)
  /\ releasedTwice' = (releasedTwice \/ DS_releasesDead(ds_listeners, ds_unsubscribe))
  /\ UNCHANGED <<comp, authVars, lastApplied, calls, hcVars, csVars, ds_doc,
                 ds_isReadyResolved, hdVars>>

\* dispose: stopStream, the informer is disposed, the ready promise resolved.
DS_dispose ==
  /\ comp = "ds"
  /\ ds_listeners' = DS_stopStreamListeners(ds_listeners, ds_unsubscribe)
  /\ ds_unsubscribe' = DS_stopStreamHandle(ds_unsubscribe)
  /\ releasedTwice' = (releasedTwice \/ DS_releasesDead(ds_listeners, ds_unsubscribe))
  /\ ds_isReadyResolved' = TRUE
  /\ UNCHANGED <<comp, authVars, lastApplied, calls, hcVars, csVars, ds_doc, hdVars>>

\* The value the stream's onData puts into the mirror: the snapshot's value,
\* null when the snapshot reports no document.
DS_snapshotValue(id, v) ==
  IF v = Absent THEN NullDoc ELSE [id |-> id, val |-> v]

\* The stream's onData: the value replaces the held doc (null when the
\* snapshot reports no document), and the service is marked ready.
DS_snapshot(k, v) ==
  /\ comp = "ds"
  /\ k \in 1 .. Len(ds_listeners)
  /\ LET value == DS_snapshotValue(ds_listeners[k], v)
     IN /\ ds_doc' = value
        /\ calls' = SnapTouch(calls, value)
  /\ ds_isReadyResolved' = TRUE
  /\ lastApplied' = NextSnapshot(lastApplied, v)
  /\ UNCHANGED <<comp, authVars, releasedTwice, hcVars, csVars, ds_unsubscribe,
                 ds_listeners, hdVars>>

\* --------------------------------------------------- useTurboDocument (hd)

\* The documentId option of the hook.
HD_documentId == "t1"

\* createDoc / upsertDoc / deleteDoc / updateDoc rollback:
\* updateLocalState(previousDoc).
HD_rollback(previousDoc) == previousDoc

\* `if (!currentDoc)` of updateDoc.
HD_isMissing(currentDoc) == currentDoc = NullDoc

\* createDoc: previousDoc is read from the ref, updateLocalState(newDoc),
\* then the await.
HD_createDoc(c, d) ==
  /\ comp = "hd"
  /\ calls[c].st = "idle"
  /\ LET previousDoc == hd_previousDocRef IN
     /\ hd_doc' = d
     /\ hd_previousDocRef' = d
     /\ calls' = Touch([calls EXCEPT ![c] =
            PendingCall("createDoc", <<HD_documentId>>, <<d>>, <<previousDoc>>,
                        hd_doc)], c)
  /\ UNCHANGED <<comp, authVars, ghostVars, hcVars, csVars, dsVars, hd_isReady, hd_defaultValue>>

\* updateDoc: the check of the ref, updateLocalState(updatedDoc), the await.
HD_updateDoc(c, v) ==
  /\ comp = "hd"
  /\ calls[c].st = "idle"
  /\ LET currentDoc == hd_previousDocRef
         updatedDoc == [id |-> currentDoc.id, val |-> v]
     IN IF HD_isMissing(currentDoc)
          THEN /\ calls' = Touch([calls EXCEPT ![c] =
                      Fail(LocalCall("updateDoc", <<HD_documentId>>, <<>>, hd_doc),
                           NotFound)], c)
               /\ UNCHANGED <<hd_doc, hd_previousDocRef>>
          ELSE /\ hd_doc' = updatedDoc
               /\ hd_previousDocRef' = updatedDoc
               /\ calls' = Touch([calls EXCEPT ![c] =
                      PendingCall("updateDoc", <<HD_documentId>>, <<updatedDoc>>,
                                  <<currentDoc>>, hd_doc)], c)
  /\ UNCHANGED <<comp, authVars, ghostVars, hcVars, csVars, dsVars, hd_isReady, hd_defaultValue>>

\* upsertDoc: no check; updateLocalState(upsertedDoc), then the await.
HD_upsertDoc(c, id, v) ==
  /\ comp = "hd"
  /\ calls[c].st = "idle"
  /\ LET currentDoc == hd_previousDocRef
         upsertedDoc == [id |-> IF currentDoc = NullDoc THEN id ELSE currentDoc.id,
                         val |-> v]
     IN /\ hd_doc' = upsertedDoc
        /\ hd_previousDocRef' = upsertedDoc
        /\ calls' = Touch([calls EXCEPT ![c] =
               PendingCall("upsertDoc", <<HD_documentId>>, <<upsertedDoc>>,
                           <<currentDoc>>, hd_doc)], c)
  /\ UNCHANGED <<comp, authVars, ghostVars, hcVars, csVars, dsVars, hd_isReady, hd_defaultValue>>

\* deleteDoc: no check; updateLocalState(null), then the await.
HD_deleteDoc(c) ==
  /\ comp = "hd"
  /\ calls[c].st = "idle"
  /\ LET previousDoc == hd_previousDocRef IN
     /\ hd_doc' = NullDoc
     /\ hd_previousDocRef' = NullDoc
     /\ calls' = Touch([calls EXCEPT ![c] =
            PendingCall("deleteDoc", <<HD_documentId>>, <<>>, <<previousDoc>>,
                        hd_doc)], c)
  /\ UNCHANGED <<comp, authVars, ghostVars, hcVars, csVars, dsVars, hd_isReady, hd_defaultValue>>

\* Any of the four after its await: on failure updateLocalState(previousDoc).
HD_done(c, r) ==
  /\ comp = "hd"
  /\ calls[c].st = "pending"
  /\ IF r # "ok"
       THEN /\ hd_doc' = HD_rollback(calls[c].prev[1])
            /\ hd_previousDocRef' = HD_rollback(calls[c].prev[1])
            /\ calls' = Touch([calls EXCEPT ![c] =
                            Fail([calls[c] EXCEPT !.rerr = r], r)], c)
       ELSE /\ UNCHANGED <<hd_doc, hd_previousDocRef>>
            /\ calls' = Touch([calls EXCEPT ![c] =
                            Success(calls[c], calls[c].vals)], c)
  /\ UNCHANGED <<comp, authVars, ghostVars, hcVars, csVars, dsVars, hd_isReady, hd_defaultValue>>

\* Fault: the default value is not consulted.
HD_newDocNoDefault(v, defaultValue) ==
  IF v = Absent THEN NullDoc ELSE [id |-> HD_documentId, val |-> v]

\* `snapshot ?? defaultValueLocator?.() ?? null` (defaultValue is NullDoc
\* when no locator is configured or it returns null).
HD_newDoc(v, defaultValue) ==
  IF v = Absent THEN defaultValue ELSE [id |-> HD_documentId, val |-> v]

\* The subscription's onData: snapshot ?? defaultValueLocator() ?? null goes
\* through updateLocalState, and the hook becomes ready.
HD_snapshot(v) ==
  /\ comp = "hd"
  /\ LET newDoc == HD_newDoc(v, hd_defaultValue)
     IN /\ hd_doc' = newDoc
        /\ hd_previousDocRef' = newDoc
        /\ calls' = SnapTouch(calls, newDoc)
  /\ hd_isReady' = TRUE
  /\ lastApplied' = NextSnapshot(lastApplied, v)
  /\ UNCHANGED <<comp, authVars, releasedTwice, hcVars, csVars, dsVars, hd_defaultValue>>

\* The subscription's onError: onError?.(error); setIsReady(true).
HD_streamError ==
  /\ comp = "hd"
  /\ hd_isReady' = TRUE
  /\ UNCHANGED <<comp, authVars, ghostVars, calls, hcVars, csVars, dsVars, hd_doc, hd_previousDocRef,
                 hd_defaultValue>>

\* The caller drops a settled call's result; the slot is free again.
Forget(c) ==
  /\ calls[c].st = "done"
  /\ calls' = [calls EXCEPT ![c] = IdleCall]
  /\ UNCHANGED <<comp, authVars, ghostVars, hcVars, csVars, dsVars, hdVars>>

\* -------------------------------------------------- supervisors (fa, ua)

\* The users that may sign in, and no user.
AuthUsers == {"u1", "u2"}
NoUser == "none"

\* A handle (Unsubscribe, timer id) not in use, 0 when all are in use.
FreshHandle(used) ==
  IF \E h \in 1 .. MaxHandles : h \notin used
  THEN CHOOSE h \in 1 .. MaxHandles :
         h \notin used /\ \A g \in 1 .. h - 1 : g \in used
  ELSE 0

\* Invoking handle h releases what it stands for; an invocation of a handle
\* whose object is already released is recorded.
Release_Keeps(live, h) == live
Release(live, h) == live \ {h}
ReleasesDead(live, h) == h # 0 /\ h \notin live

\* The stream errors in a row: errs their number (-1: something else came
\* between), retried the retry of the latest one has run.
NoRun == [errs |-> 0, retried |-> FALSE]
RunError(r, each) ==
  IF r.errs >= 0 /\ r.errs < MaxRetries /\ (r.errs = 0 \/ r.retried \/ ~each)
  THEN [errs |-> r.errs + 1, retried |-> FALSE]
  ELSE [errs |-> -1, retried |-> FALSE]
RunRetry(r) == IF r.errs >= 1 THEN [r EXCEPT !.retried = TRUE] ELSE r

\* A suspended auth callback: the user it was invoked with, where it is
\* suspended ("onAuth", "stream", or, for a sign-out, "onData"), and the data
\* subscription it started or, for a sign-out, released.  A sign-out
\* callback that is overtaken by a later auth observation is marked.
HandlerRefs == {handlers[j].s : j \in 1 .. Len(handlers)}
Overtaken(hs) ==
  [j \in 1 .. Len(hs) |->
     IF hs[j].pc = "onData" THEN [hs[j] EXCEPT !.pc = "onDataLate"] ELSE hs[j]]

\* What a step does to the history of the data subscriptions: one that the
\* step started is scoped to user u, one that is released is forgotten;
\* external says the step is a call or an event from outside, not the
\* resumption of a suspended callback.
NoScope == [h \in 1 .. MaxHandles |-> NoUser]
Track(u, external) ==
  /\ scope' = [h \in 1 .. MaxHandles |->
                IF h \notin streams' THEN NoUser
                ELSE IF h \in streams THEN scope[h] ELSE u]
  /\ sequential' = (sequential /\ (external => handlers = <<>>))

\* ---------------------------------------------- FirebaseAuthService (fa)

FA_maxNrOfRetry == MaxRetries

\* _resetStream: both subscriptions are invoked and set to null.
FA_resetStream ==
  /\ streams' = Release(streams, fa_subscription)
  /\ fa_subscription' = 0
  /\ observers' = Release(observers, fa_userSubscription)
  /\ fa_userSubscription' = 0
  /\ releasedTwice' = (\/ releasedTwice
                       \/ ReleasesDead(streams, fa_subscription)
                       \/ ReleasesDead(observers, fa_userSubscription))

\* _resetStream followed by tryInitialiseStream: the subscriptions are
\* released and the auth observer is registered anew.
FA_resetAndInit ==
  LET left == Release(observers, fa_userSubscription)
      o == FreshHandle(left \cup {fa_userSubscription})
  IN /\ o # 0
     /\ streams' = Release(streams, fa_subscription)
     /\ fa_subscription' = 0
     /\ observers' = left \cup {o}
     /\ fa_userSubscription' = o
     /\ releasedTwice' = (\/ releasedTwice
                          \/ ReleasesDead(streams, fa_subscription)
                          \/ ReleasesDead(observers, fa_userSubscription))

\* tryInitialiseStream: this._userSubscription ??= onAuthStateChanged(...).
FA_tryInitialiseStream ==
  /\ comp = "fa"
  /\ IF fa_userSubscription # 0
       THEN UNCHANGED <<observers, fa_userSubscription>>
       ELSE LET o == FreshHandle(observers) IN
            /\ o # 0
            /\ observers' = observers \cup {o}
            /\ fa_userSubscription' = o
  /\ last' = Event("api", fa_nrOfRetry, FALSE, NoDone, 0)
  /\ run' = [errs |-> -1, retried |-> FALSE]
  /\ UNCHANGED <<comp, mirrorVars, releasedTwice, uaVars, fa_cachedUserId,
                 fa_subscription, fa_retryTimer, fa_nrOfRetry, streams,
                 timers, handlers>>
  /\ Track(NoUser, TRUE)

\* resetAndTryInitialiseStream.
FA_resetAndTryInitialiseStream ==
  /\ comp = "fa"
  /\ FA_resetAndInit
  /\ last' = [Event("reset", fa_nrOfRetry, FALSE, NoDone, 0)
                EXCEPT !.rel = fa_subscription]
  /\ run' = [errs |-> -1, retried |-> FALSE]
  /\ UNCHANGED <<comp, mirrorVars, uaVars, fa_cachedUserId, fa_retryTimer,
                 fa_nrOfRetry, timers, handlers>>
  /\ Track(NoUser, TRUE)

\* _resetRetryTimer: clearTimeout of the timer held, which is set to null.
FA_resetRetryTimerNoClear ==
  /\ fa_retryTimer' = 0
  /\ UNCHANGED timers
FA_resetRetryTimer ==
  /\ timers' = Release(timers, fa_retryTimer)
  /\ fa_retryTimer' = 0

\* dispose: _resetStream, _resetRetryTimer, _nrOfRetry = 0.
FA_dispose ==
  /\ comp = "fa"
  /\ FA_resetStream
  /\ FA_resetRetryTimer
  /\ fa_nrOfRetry' = 0
  /\ last' = [Event("dispose", fa_nrOfRetry, FALSE, NoDone, 0)
                EXCEPT !.rel = fa_subscription]
  /\ run' = NoRun
  /\ UNCHANGED <<comp, mirrorVars, uaVars, fa_cachedUserId, handlers>>
  /\ Track(NoUser, TRUE)

\* The auth observer reports user u: cachedUserId is set and the callback
\* suspends in `await this.onAuth?.(user)`.
FA_signedIn(o, u) ==
  /\ comp = "fa"
  /\ o \in observers
  /\ Len(handlers) < MaxAuthHandlers
  /\ fa_cachedUserId' = u
  /\ handlers' = Append(Overtaken(handlers),
                        [user |-> u, pc |-> "onAuth", s |-> 0])
  /\ last' = Event("present", fa_nrOfRetry, FALSE, NoDone, 0)
  /\ UNCHANGED <<comp, mirrorVars, releasedTwice, uaVars, fa_subscription,
                 fa_userSubscription, fa_retryTimer, fa_nrOfRetry, observers,
                 streams, timers, run>>
  /\ Track(NoUser, TRUE)

\* The auth observer reports no user: cachedUserId is cleared, the data
\* subscription is invoked and set to null, onData(null, null) is called
\* and awaited.
FA_signedOut(o) ==
  /\ comp = "fa"
  /\ o \in observers
  /\ Len(handlers) < MaxAuthHandlers
  /\ handlers' = Append(Overtaken(handlers),
                        [user |-> NoUser, pc |-> "onData", s |-> fa_subscription])
  /\ fa_cachedUserId' = NoUser
  /\ streams' = Release(streams, fa_subscription)
  /\ releasedTwice' = (releasedTwice \/ ReleasesDead(streams, fa_subscription))
  /\ fa_subscription' = 0
  /\ last' = [Event("absent", fa_nrOfRetry, FALSE, NoDone, 1)
                EXCEPT !.rel = fa_subscription]
  /\ UNCHANGED <<comp, mirrorVars, uaVars, fa_userSubscription, fa_retryTimer,
                 fa_nrOfRetry, observers, timers, run>>
  /\ Track(NoUser, TRUE)

\* onData(null, null) settles for the suspended sign-out callback k, which
\* ends.
FA_onDataDone(k) ==
  /\ comp = "fa"
  /\ k \in 1 .. Len(handlers)
  /\ handlers[k].pc \in {"onData", "onDataLate"}
  /\ handlers' = RemoveAt(handlers, k)
  /\ last' = [Event(IF handlers[k].pc = "onData" THEN "signedOut" ELSE "overtaken",
                    fa_nrOfRetry, FALSE, NoDone, 1)
                EXCEPT !.rel = handlers[k].s]
  /\ UNCHANGED <<comp, mirrorVars, releasedTwice, uaVars, faVars, observers,
                 streams, timers, run>>
  /\ Track(NoUser, FALSE)

\* `this._subscription ??= ...`: the right-hand side is evaluated only when
\* _subscription is null.
FA_needsStreamAlways(sub) == TRUE
FA_needsStream(sub) == sub = 0

\* this.stream(user, ...): the user is the argument of the callback.
FA_streamUserCached(h) == fa_cachedUserId
FA_streamUser(h) == h.user

\* onAuth settles for the suspended callback k.  When it threw the callback
\* ends.  Otherwise `this._subscription ??= await this.stream(...)` reads
\* _subscription: when it is set the callback ends, else stream() is called
\* and the callback suspends until its result is there.
FA_onAuthDone(k, ok) ==
  /\ comp = "fa"
  /\ k \in 1 .. Len(handlers)
  /\ handlers[k].pc = "onAuth"
  /\ IF ok /\ FA_needsStream(fa_subscription)
       THEN LET s == FreshHandle(streams \cup {fa_subscription} \cup HandlerRefs) IN
            /\ s # 0
            /\ streams' = streams \cup {s}
            /\ handlers' = [handlers EXCEPT ![k] = [@ EXCEPT !.pc = "stream", !.s = s]]
       ELSE /\ handlers' = RemoveAt(handlers, k)
            /\ UNCHANGED streams
  /\ last' = Event("onAuth", fa_nrOfRetry, FALSE, NoDone, 0)
  /\ UNCHANGED <<comp, mirrorVars, releasedTwice, uaVars, faVars, observers,
                 timers, run>>
  /\ Track(FA_streamUser(handlers[k]), FALSE)

\* stream() settles for the suspended callback k: its Unsubscribe is
\* assigned to _subscription; when stream() failed the callback ends and
\* nothing is subscribed.
FA_streamDone(k, ok) ==
  /\ comp = "fa"
  /\ k \in 1 .. Len(handlers)
  /\ handlers[k].pc = "stream"
  /\ handlers' = RemoveAt(handlers, k)
  /\ IF ok
       THEN /\ fa_subscription' = handlers[k].s
            /\ UNCHANGED streams
            /\ last' = Event("subscribed", fa_nrOfRetry, FALSE, NoDone, 0)
       ELSE /\ streams' = streams \ {handlers[k].s}
            /\ UNCHANGED fa_subscription
            /\ last' = Event("failed", fa_nrOfRetry, FALSE, NoDone, 0)
  /\ UNCHANGED <<comp, mirrorVars, releasedTwice, uaVars, fa_cachedUserId,
                 fa_userSubscription, fa_retryTimer, fa_nrOfRetry, observers,
                 timers, run>>
  /\ Track(NoUser, FALSE)

\* The data subscription s delivers a value: onData(value, user).
FA_streamValue(s) ==
  /\ comp = "fa"
  /\ s \in streams
  /\ last' = Event("value", fa_nrOfRetry, FALSE, NoDone, 0)
  /\ run' = NoRun
  /\ UNCHANGED <<comp, mirrorVars, releasedTwice, uaVars, faVars, envVars>>
  /\ Track(NoUser, TRUE)

\* _tryRetry below the limit: the timer held is cleared and a new one set.
FA_belowLimitAlways(nr) == TRUE
FA_belowLimit(nr) == nr < FA_maxNrOfRetry

\* The data subscription s reports an error: onError, then _tryRetry, which
\* below the limit replaces the retry timer and at the limit runs
\* _resetStream.
FA_streamError(s) ==
  /\ comp = "fa"
  /\ s \in streams
  /\ IF FA_belowLimit(fa_nrOfRetry)
       THEN LET left == Release(timers, fa_retryTimer)
                t == FreshHandle(left \cup {fa_retryTimer})
            IN /\ t # 0
               /\ timers' = left \cup {t}
               /\ fa_retryTimer' = t
               /\ last' = Event("error", fa_nrOfRetry, TRUE, NoDone, 0)
               /\ UNCHANGED <<streams, observers, fa_subscription,
                              fa_userSubscription, releasedTwice>>
       ELSE /\ FA_resetStream
            /\ last' = Event("error", fa_nrOfRetry, FALSE, NoDone, 0)
            /\ UNCHANGED <<timers, fa_retryTimer>>
  /\ run' = RunError(run, TRUE)
  /\ UNCHANGED <<comp, mirrorVars, uaVars, fa_cachedUserId, fa_nrOfRetry,
                 handlers>>
  /\ Track(NoUser, TRUE)

\* The retry timer t fires: _nrOfRetry++, _resetStream, tryInitialiseStream,
\* _retryTimer = null.  The two awaits in between are of calls that have
\* run to their end, so the callback resumes before any timer, auth or
\* stream event is delivered.
FA_retry(t) ==
  /\ comp = "fa"
  /\ t \in timers
  /\ timers' = timers \ {t}
  /\ fa_nrOfRetry' = fa_nrOfRetry + 1
  /\ FA_resetAndInit
  /\ fa_retryTimer' = 0
  /\ last' = Event("retry", fa_nrOfRetry, FALSE, NoDone, 0)
  /\ run' = RunRetry(run)
  /\ UNCHANGED <<comp, mirrorVars, uaVars, fa_cachedUserId, handlers>>
  /\ Track(NoUser, TRUE)

\* ------------------------------------------------------ useAuthSync (ua)

UA_maxRetries == MaxRetries

\* handleStreamError: the new count is at the limit.
UA_exhausted(newCount) == newCount >= UA_maxRetries

\* handleStreamError, with strs the data subscriptions, tms the timers and
\* cnt, rtr the retry state left by the caller: unmounted it returns; else
\* the count is incremented and either the limit is reached (isRetrying
\* false, onDone) or a retry timer is set.
UA_handleStreamError(strs, sref, tms, tref, cnt, rtr, r) ==
  /\ streams' = strs
  /\ ua_streamUnsubscribeRef' = sref
  /\ UNCHANGED ua_isReady
  /\ IF ~ua_isMountedRef
       THEN /\ timers' = tms
            /\ ua_retryTimeoutRef' = tref
            /\ ua_retryCount' = cnt
            /\ ua_isRetrying' = rtr
            /\ last' = Event("failed", cnt, FALSE, NoDone, 0)
            /\ run' = r
       ELSE /\ cnt <= UA_maxRetries
            /\ ua_retryCount' = cnt + 1
            /\ run' = RunError(r, FALSE)
            /\ IF UA_exhausted(cnt + 1)
                 THEN /\ ua_isRetrying' = FALSE
                      /\ timers' = tms
                      /\ ua_retryTimeoutRef' = tref
                      /\ last' = Event("error", cnt, FALSE,
                                       [n |-> cnt + 1, max |-> UA_maxRetries], 0)
                 ELSE LET t == FreshHandle(tms \cup {tref, ua_retryTimeoutRef}) IN
                      /\ t # 0
                      /\ ua_isRetrying' = TRUE
                      /\ timers' = tms \cup {t}
                      /\ ua_retryTimeoutRef' = t
                      /\ last' = Event("error", cnt, TRUE, NoDone, 0)

\* setupStream from the return of onAuth: stream(user) is called and its
\* Unsubscribe stored, isReady set, the retry state cleared; when onAuth
\* or stream threw, handleStreamError runs.  (The Unsubscribe is a new
\* function: not one in use, nor the one just invoked.)
UA_subscribe(ok, strs, sref, tms, tref, cnt, rtr, r) ==
  IF ok
  THEN LET s == FreshHandle(strs \cup {sref, ua_streamUnsubscribeRef}
                            \cup HandlerRefs) IN
       /\ s # 0
       /\ streams' = strs \cup {s}
       /\ ua_streamUnsubscribeRef' = s
       /\ ua_isReady' = TRUE
       /\ ua_retryCount' = 0
       /\ ua_isRetrying' = FALSE
       /\ timers' = tms
       /\ ua_retryTimeoutRef' = tref
       /\ last' = Event("subscribed", cnt, FALSE, NoDone, 0)
       /\ run' = NoRun
  ELSE UA_handleStreamError(strs, sref, tms, tref, cnt, rtr, r)

\* setupStream(u), with tms the timers pending and cnt, rtr the retry state
\* left by the caller: unmounted it returns; else cleanupStream, then it
\* suspends in `await onAuth(user)` when the option is given and goes on to
\* stream(user) when it is not.
UA_setupStream(u, ok, tms, cnt, rtr, r) ==
  IF ~ua_isMountedRef
  THEN /\ timers' = tms
       /\ ua_retryCount' = cnt
       /\ ua_isRetrying' = rtr
       /\ last' = Event("unmounted", cnt, FALSE, NoDone, 0)
       /\ run' = r
       /\ UNCHANGED <<streams, handlers, releasedTwice, ua_isReady,
                      ua_streamUnsubscribeRef, ua_retryTimeoutRef>>
  ELSE /\ releasedTwice' = (releasedTwice \/ ReleasesDead(streams, ua_streamUnsubscribeRef))
       /\ IF ua_onAuth
            THEN /\ Len(handlers) < MaxAuthHandlers
                 /\ handlers' = Append(Overtaken(handlers),
                                       [user |-> u, pc |-> "onAuth", s |-> 0])
                 /\ streams' = Release(streams, ua_streamUnsubscribeRef)
                 /\ ua_streamUnsubscribeRef' = 0
                 /\ timers' = Release(tms, ua_retryTimeoutRef)
                 /\ ua_retryTimeoutRef' = 0
                 /\ ua_retryCount' = cnt
                 /\ ua_isRetrying' = rtr
                 /\ last' = Event("present", cnt, FALSE, NoDone, 0)
                 /\ run' = r
                 /\ UNCHANGED ua_isReady
            ELSE /\ UA_subscribe(ok, Release(streams, ua_streamUnsubscribeRef), 0,
                                 Release(tms, ua_retryTimeoutRef), 0, cnt, rtr, r)
                 /\ handlers' = Overtaken(handlers)

\* The effect: isMountedRef is set and the auth observer registered.
UA_mount ==
  /\ comp = "ua"
  /\ ua_unsubscribeAuth = 0
  /\ LET o == FreshHandle(observers) IN
     /\ o # 0
     /\ observers' = observers \cup {o}
     /\ ua_unsubscribeAuth' = o
  /\ ua_isMountedRef' = TRUE
  /\ last' = Event("mount", ua_retryCount, FALSE, NoDone, 0)
  /\ UNCHANGED <<comp, mirrorVars, releasedTwice, faVars, ua_isReady,
                 ua_cachedUserId, ua_isRetrying, ua_retryCount,
                 ua_streamUnsubscribeRef, ua_retryTimeoutRef,
                 ua_currentUserRef, ua_onAuth, streams, timers, handlers, run>>
  /\ Track(NoUser, TRUE)

\* The cleanup of the effect: isMountedRef cleared, cleanupStream, the auth
\* observer released.
UA_unmount ==
  /\ comp = "ua"
  /\ ua_unsubscribeAuth # 0
  /\ ua_isMountedRef' = FALSE
  /\ streams' = Release(streams, ua_streamUnsubscribeRef)
  /\ ua_streamUnsubscribeRef' = 0
  /\ timers' = Release(timers, ua_retryTimeoutRef)
  /\ ua_retryTimeoutRef' = 0
  /\ observers' = Release(observers, ua_unsubscribeAuth)
  /\ ua_unsubscribeAuth' = 0
  /\ releasedTwice' = (\/ releasedTwice
                       \/ ReleasesDead(streams, ua_streamUnsubscribeRef)
                       \/ ReleasesDead(observers, ua_unsubscribeAuth))
  /\ last' = Event("unmount", ua_retryCount, FALSE, NoDone, 0)
  /\ UNCHANGED <<comp, mirrorVars, faVars, ua_isReady, ua_cachedUserId,
                 ua_isRetrying, ua_retryCount, ua_currentUserRef, ua_onAuth,
                 handlers, run>>
  /\ Track(NoUser, TRUE)

\* The auth observer reports user u: currentUserRef and cachedUserId are
\* set and setupStream(u) runs.
UA_signedIn(o, u, ok) ==
  /\ comp = "ua"
  /\ o \in observers
  /\ ua_isMountedRef
  /\ ua_currentUserRef' = u
  /\ ua_cachedUserId' = u
  /\ UA_setupStream(u, ok, timers, ua_retryCount, ua_isRetrying, run)
  /\ UNCHANGED <<comp, mirrorVars, faVars, ua_isMountedRef,
                 ua_unsubscribeAuth, ua_onAuth, observers>>
  /\ Track(u, TRUE)

\* The auth observer reports no user: handleSignOut up to its
\* `await onData(null, null)`.
UA_signedOut(o) ==
  /\ comp = "ua"
  /\ o \in observers
  /\ ua_isMountedRef
  /\ Len(handlers) < MaxAuthHandlers
  /\ handlers' = Append(Overtaken(handlers),
                        [user |-> NoUser, pc |-> "onData",
                         s |-> ua_streamUnsubscribeRef])
  /\ streams' = Release(streams, ua_streamUnsubscribeRef)
  /\ ua_streamUnsubscribeRef' = 0
  /\ timers' = Release(timers, ua_retryTimeoutRef)
  /\ ua_retryTimeoutRef' = 0
  /\ releasedTwice' = (releasedTwice \/ ReleasesDead(streams, ua_streamUnsubscribeRef))
  /\ ua_cachedUserId' = NoUser
  /\ ua_isReady' = FALSE
  /\ ua_retryCount' = 0
  /\ ua_isRetrying' = FALSE
  /\ ua_currentUserRef' = NoUser
  /\ last' = [Event("absent", ua_retryCount, FALSE, NoDone, 1)
                EXCEPT !.rel = ua_streamUnsubscribeRef]
  /\ run' = NoRun
  /\ UNCHANGED <<comp, mirrorVars, faVars, ua_isMountedRef,
                 ua_unsubscribeAuth, ua_onAuth, observers>>
  /\ Track(NoUser, TRUE)

\* onData(null, null) settles for the suspended handleSignOut k:
\* onDone(0, maxRetries).
UA_onDataDone(k) ==
  /\ comp = "ua"
  /\ k \in 1 .. Len(handlers)
  /\ handlers[k].pc \in {"onData", "onDataLate"}
  /\ handlers' = RemoveAt(handlers, k)
  /\ last' = [Event(IF handlers[k].pc = "onData" THEN "signedOut" ELSE "overtaken",
                    ua_retryCount, FALSE, [n |-> 0, max |-> UA_maxRetries], 1)
                EXCEPT !.rel = handlers[k].s]
  /\ UNCHANGED <<comp, mirrorVars, releasedTwice, faVars, uaVars, observers,
                 streams, timers, run>>
  /\ Track(NoUser, FALSE)

\* onAuth settles for the suspended setupStream k.
UA_onAuthDone(k, ok) ==
  /\ comp = "ua"
  /\ k \in 1 .. Len(handlers)
  /\ handlers[k].pc = "onAuth"
  /\ handlers' = RemoveAt(handlers, k)
  /\ UA_subscribe(ok, streams, ua_streamUnsubscribeRef, timers, ua_retryTimeoutRef,
                  ua_retryCount, ua_isRetrying, run)
  /\ UNCHANGED <<comp, mirrorVars, releasedTwice, faVars, ua_cachedUserId,
                 ua_currentUserRef, ua_isMountedRef, ua_unsubscribeAuth,
                 ua_onAuth, observers>>
  /\ Track(handlers[k].user, FALSE)

\* The retry timer t fires: setupStream(currentUserRef.current) when
\* mounted and a user is current.
UA_retry(t, ok) ==
  /\ comp = "ua"
  /\ t \in timers
  /\ IF ua_isMountedRef /\ ua_currentUserRef # NoUser
       THEN UA_setupStream(ua_currentUserRef, ok, timers \ {t}, ua_retryCount,
                           ua_isRetrying, run)
       ELSE /\ timers' = timers \ {t}
            /\ last' = Event("retry", ua_retryCount, FALSE, NoDone, 0)
            /\ UNCHANGED <<streams, handlers, releasedTwice, run, ua_isReady,
                           ua_retryCount, ua_isRetrying,
                           ua_streamUnsubscribeRef, ua_retryTimeoutRef>>
  /\ UNCHANGED <<comp, mirrorVars, faVars, ua_cachedUserId, ua_currentUserRef,
                 ua_isMountedRef, ua_unsubscribeAuth, ua_onAuth, observers>>
  /\ Track(ua_currentUserRef, TRUE)

\* resetAndReinitialize: mounted, cleanupStream, the retry state cleared,
\* setupStream for the current user.  (setupStream repeats cleanupStream.)
UA_resetAndReinitialize(ok) ==
  /\ comp = "ua"
  /\ ua_isMountedRef
  /\ IF ua_currentUserRef # NoUser
       THEN UA_setupStream(ua_currentUserRef, ok, timers, 0, FALSE, NoRun)
       ELSE /\ streams' = Release(streams, ua_streamUnsubscribeRef)
            /\ ua_streamUnsubscribeRef' = 0
            /\ timers' = Release(timers, ua_retryTimeoutRef)
            /\ ua_retryTimeoutRef' = 0
            /\ releasedTwice' = (releasedTwice \/ ReleasesDead(streams, ua_streamUnsubscribeRef))
            /\ ua_retryCount' = 0
            /\ ua_isRetrying' = FALSE
            /\ last' = Event("api", ua_retryCount, FALSE, NoDone, 0)
            /\ run' = NoRun
            /\ UNCHANGED <<ua_isReady, handlers>>
  /\ UNCHANGED <<comp, mirrorVars, faVars, ua_cachedUserId, ua_currentUserRef,
                 ua_isMountedRef, ua_unsubscribeAuth, ua_onAuth, observers>>
  /\ Track(ua_currentUserRef, TRUE)

\* ------------------------------------------------------------------- spec

\* The four mirrors after construction.
InitMirrors ==
  /\ hc_docsById \in (IF comp = "hc" THEN Maps ELSE {EmptyMap})
  /\ hc_isReady = FALSE
  /\ cs_docsById = EmptyMap
  /\ cs_docsInformer = EmptyMap
  /\ cs_isReadyResolved = FALSE
  /\ cs_isLoaded = FALSE
  /\ cs_isLoading = FALSE
  /\ cs_unsubscribe = 0
  /\ cs_listeners = {}
  /\ cs_handlers = <<>>
  /\ cs_loadPromise = FALSE
  /\ ds_doc \in (IF comp = "ds" THEN MaybeDoc ELSE {NullDoc})
  /\ ds_isReadyResolved = FALSE
  /\ ds_unsubscribe = "none"
  /\ ds_listeners = <<>>
  /\ hd_doc \in (IF comp = "hd" THEN MaybeDoc ELSE {NullDoc})
  /\ hd_previousDocRef = NullDoc
  /\ hd_isReady = FALSE
  /\ hd_defaultValue \in (IF comp = "hd" THEN MaybeDoc ELSE {NullDoc})
  /\ releasedTwice = FALSE
  /\ lastApplied = NoSnapshot

\* No call has been made.
InitState ==
  /\ calls = [k \in CallIds |-> IdleCall]
  /\ InitMirrors

\* The supervisors before construction.
AuthIdle ==
  /\ fa_cachedUserId = NoUser
  /\ fa_subscription = 0
  /\ fa_userSubscription = 0
  /\ fa_retryTimer = 0
  /\ fa_nrOfRetry = 0
  /\ ua_isReady = FALSE
  /\ ua_cachedUserId = NoUser
  /\ ua_isRetrying = FALSE
  /\ ua_retryCount = 0
  /\ ua_streamUnsubscribeRef = 0
  /\ ua_retryTimeoutRef = 0
  /\ ua_currentUserRef = NoUser
  /\ ua_isMountedRef = FALSE
  /\ ua_unsubscribeAuth = 0
  /\ ua_onAuth = FALSE
  /\ observers = {}
  /\ streams = {}
  /\ timers = {}
  /\ handlers = <<>>
  /\ last = NoEvent
  /\ run = NoRun
  /\ scope = NoScope
  /\ sequential = TRUE

\* The mutations of the four mirrors.
Init == comp \in Components /\ InitState /\ AuthIdle

Next ==
  \/ \E c \in CallIds, id \in Ids, v \in Vals : HC_createDoc(c, id, v)
  \/ \E c \in CallIds, r \in Responses : HC_createDocDone(c, r)
  \/ \E c \in CallIds, id \in Ids, v \in Vals : HC_updateDoc(c, id, v)
  \/ \E c \in CallIds, r \in Responses : HC_updateDocDone(c, r)
  \/ \E c \in CallIds, id \in Ids, v \in Vals : HC_upsertDoc(c, id, v)
  \/ \E c \in CallIds, r \in Responses : HC_upsertDocDone(c, r)
  \/ \E c \in CallIds, id \in Ids : HC_deleteDoc(c, id)
  \/ \E c \in CallIds, r \in Responses : HC_deleteDocDone(c, r)
  \/ \E c \in CallIds, items \in Batches :
       \E stage \in [1 .. Len(items) -> Responses] : HC_createDocs(c, items, stage)
  \/ \E c \in CallIds, r \in Responses : HC_createDocsDone(c, r)
  \/ \E c \in CallIds, items \in Batches :
       \E stage \in [1 .. Len(items) -> Responses] : HC_updateDocs(c, items, stage)
  \/ \E c \in CallIds, r \in Responses : HC_updateDocsDone(c, r)
  \/ \E c \in CallIds, ids \in IdBatches :
       \E stage \in [1 .. Len(ids) -> Responses] : HC_deleteDocs(c, ids, stage)
  \/ \E c \in CallIds, r \in Responses : HC_deleteDocsDone(c, r)
  \/ \E m \in Maps : HC_snapshot(m)
  \/ \E c \in CallIds, id \in Ids, v \in Vals : CS_createDoc(c, id, v)
  \/ \E c \in CallIds, id \in Ids, v \in Vals : CS_updateDoc(c, id, v)
  \/ \E c \in CallIds, id \in Ids : CS_deleteDoc(c, id)
  \/ \E c \in CallIds, id \in Ids, v \in Vals : CS_upsertDoc(c, id, v)
  \/ \E c \in CallIds, r \in Responses : CS_singleDone(c, r)
  \/ \E c \in CallIds, items \in Batches :
       \E stage \in [1 .. Len(items) -> Responses] : CS_createDocs(c, items, stage)
  \/ \E c \in CallIds, items \in Batches :
       \E stage \in [1 .. Len(items) -> Responses] : CS_updateDocs(c, items, stage)
  \/ \E c \in CallIds, items \in Batches :
       \E stage \in [1 .. Len(items) -> Responses] : CS_deleteDocs(c, items, stage)
  \/ \E c \in CallIds, items \in Batches :
       \E stage \in [1 .. Len(items) -> Responses] : CS_upsertDocs(c, items, stage)
  \/ \E c \in CallIds, r \in Responses : CS_batchDone(c, r)
  \/ \E c \in CallIds, d \in Docs : DS_createDoc(c, d)
  \/ \E c \in CallIds, v \in Vals : DS_updateDoc(c, v)
  \/ \E c \in CallIds : DS_deleteDoc(c)
  \/ \E c \in CallIds, id \in Ids, v \in Vals : DS_upsertDoc(c, id, v)
  \/ \E c \in CallIds, r \in Responses : DS_done(c, r)
  \/ \E id \in Ids : DS_stream(id)
  \/ DS_stopStream
  \/ \E k \in 1 .. Len(ds_listeners), v \in MaybeVal : DS_snapshot(k, v)
  \/ \E c \in CallIds, d \in Docs : HD_createDoc(c, d)
  \/ \E c \in CallIds, v \in Vals : HD_updateDoc(c, v)
  \/ \E c \in CallIds, id \in Ids, v \in Vals : HD_upsertDoc(c, id, v)
  \/ \E c \in CallIds : HD_deleteDoc(c)
  \/ \E c \in CallIds, r \in Responses : HD_done(c, r)
  \/ \E v \in MaybeVal : HD_snapshot(v)
  \/ HD_streamError
  \/ \E c \in CallIds : Forget(c)

Spec == Init /\ [][Next]_vars

\* The stream lifecycle of the two services and of useTurboDocument, with
\* the mutations that put local entries into the mirror.
StreamComponents == {"cs", "ds", "hd"}

StreamInit == comp \in StreamComponents /\ InitState /\ AuthIdle

StreamNext ==
  \/ CS_stream
  \/ CS_streamByQuery
  \/ CS_stopStream
  \/ CS_load
  \/ \E h \in 1 .. MaxListeners, docs \in Snapshots : CS_snapshot(h, docs)
  \/ \E k \in 1 .. MaxHandlers : CS_handleStreamData(k)
  \/ CS_dispose
  \/ \E c \in CallIds, id \in Ids, v \in Vals : CS_createDoc(c, id, v)
  \/ \E c \in CallIds, r \in Responses : CS_singleDone(c, r)
  \/ \E id \in Ids : DS_stream(id)
  \/ DS_stopStream
  \/ DS_dispose
  \/ \E k \in 1 .. MaxListeners, v \in MaybeVal : DS_snapshot(k, v)
  \/ \E c \in CallIds, d \in Docs : DS_createDoc(c, d)
  \/ \E c \in CallIds : DS_deleteDoc(c)
  \/ \E c \in CallIds, r \in Responses : DS_done(c, r)
  \/ \E v \in MaybeVal : HD_snapshot(v)
  \/ HD_streamError
  \/ \E c \in CallIds, d \in Docs : HD_createDoc(c, d)
  \/ \E c \in CallIds : HD_deleteDoc(c)
  \/ \E c \in CallIds, r \in Responses : HD_done(c, r)
  \/ \E c \in CallIds : Forget(c)

StreamSpec == StreamInit /\ [][StreamNext]_vars

\* Two updateDoc calls in flight on one hook (useTurboCollection or
\* useTurboDocument): the second is made while the first is suspended in
\* its await.
RaceComponents == {"hc", "hd"}
RaceCallIds == 1 .. MaxRaceCalls

RaceInit ==
  /\ comp \in RaceComponents
  /\ calls = [k \in RaceCallIds |-> IdleCall]
  /\ InitMirrors
  /\ AuthIdle

RaceNext ==
  \/ \E c \in RaceCallIds, id \in Ids, v \in Vals : HC_updateDoc(c, id, v)
  \/ \E c \in RaceCallIds, r \in Responses : HC_updateDocDone(c, r)
  \/ \E v \in MaybeVal : HD_snapshot(v)
  \/ \E c \in RaceCallIds, v \in Vals : HD_updateDoc(c, v)
  \/ \E c \in RaceCallIds, r \in Responses : HD_done(c, r)
  \/ \E c \in RaceCallIds : Forget(c)

RaceSpec == RaceInit /\ [][RaceNext]_vars

\* Batch creates whose transforms take the identity from their vars bundle,
\* on useTurboCollection and TurboCollectionService.
VarsComponents == {"hc", "cs"}
ValBatches == UNION {[1 .. n -> Vals] : n \in 0 .. MaxBatch}

VarsInit == comp \in VarsComponents /\ InitState /\ AuthIdle

VarsNext ==
  \/ \E c \in CallIds, vals \in ValBatches :
       \E stage \in [1 .. Len(vals) -> Responses] : HC_createDocsOfVars(c, vals, stage)
  \/ \E c \in CallIds, r \in Responses : HC_createDocsDone(c, r)
  \/ \E c \in CallIds, id \in Ids : HC_deleteDoc(c, id)
  \/ \E c \in CallIds, r \in Responses : HC_deleteDocDone(c, r)
  \/ \E c \in CallIds, vals \in ValBatches :
       \E stage \in [1 .. Len(vals) -> Responses] : CS_createDocsOfVars(c, vals, stage)
  \/ \E c \in CallIds, r \in Responses : CS_batchDone(c, r)
  \/ \E c \in CallIds, id \in Ids : CS_deleteDoc(c, id)
  \/ \E c \in CallIds, r \in Responses : CS_singleDone(c, r)
  \/ \E c \in CallIds : Forget(c)

VarsSpec == VarsInit /\ [][VarsNext]_vars

\* load() of TurboCollectionService with its stream: snapshots, errors,
\* stopStream and dispose.  A snapshot handler that is suspended in
\* beforeSync is resumed eventually; the store owes no further event.
LoadInit == comp = "cs" /\ InitState /\ AuthIdle

LoadNext ==
  \/ CS_load
  \/ CS_stream
  \/ CS_stopStream
  \/ \E h \in 1 .. MaxListeners, docs \in Snapshots : CS_snapshot(h, docs)
  \/ \E k \in 1 .. MaxHandlers : CS_handleStreamData(k)
  \/ \E h \in 1 .. MaxListeners : CS_streamError(h)
  \/ CS_dispose

LoadSpec ==
  /\ LoadInit
  /\ [][LoadNext]_vars
  /\ WF_vars(\E k \in 1 .. MaxHandlers : CS_handleStreamData(k))

\* The two supervisors.  FirebaseAuthService is constructed with or without
\* initialiseStream; useAuthSync has run its effect, with or without the
\* onAuth option.
AuthComponents == {"fa", "ua"}

AuthInit ==
  /\ comp \in AuthComponents
  /\ InitState
  /\ fa_cachedUserId = NoUser
  /\ fa_subscription = 0
  /\ fa_userSubscription \in (IF comp = "fa" THEN {0, 1} ELSE {0})
  /\ fa_retryTimer = 0
  /\ fa_nrOfRetry = 0
  /\ ua_isReady = FALSE
  /\ ua_cachedUserId = NoUser
  /\ ua_isRetrying = FALSE
  /\ ua_retryCount = 0
  /\ ua_streamUnsubscribeRef = 0
  /\ ua_retryTimeoutRef = 0
  /\ ua_currentUserRef = NoUser
  /\ ua_isMountedRef = (comp = "ua")
  /\ ua_unsubscribeAuth = (IF comp = "ua" THEN 1 ELSE 0)
  /\ ua_onAuth \in (IF comp = "ua" THEN BOOLEAN ELSE {FALSE})
  /\ observers = {fa_userSubscription, ua_unsubscribeAuth} \ {0}
  /\ streams = {}
  /\ timers = {}
  /\ handlers = <<>>
  /\ last = NoEvent
  /\ run = NoRun
  /\ scope = NoScope
  /\ sequential = TRUE

AuthNext ==
  \/ FA_tryInitialiseStream
  \/ FA_resetAndTryInitialiseStream
  \/ FA_dispose
  \/ \E o \in 1 .. MaxHandles, u \in AuthUsers : FA_signedIn(o, u)
  \/ \E o \in 1 .. MaxHandles : FA_signedOut(o)
  \/ \E k \in 1 .. MaxAuthHandlers, ok \in BOOLEAN : FA_onAuthDone(k, ok)
  \/ \E k \in 1 .. MaxAuthHandlers, ok \in BOOLEAN : FA_streamDone(k, ok)
  \/ \E k \in 1 .. MaxAuthHandlers : FA_onDataDone(k)
  \/ \E s \in 1 .. MaxHandles : FA_streamValue(s)
  \/ \E s \in 1 .. MaxHandles : FA_streamError(s)
  \/ \E t \in 1 .. MaxHandles : FA_retry(t)
  \/ UA_mount
  \/ UA_unmount
  \/ \E o \in 1 .. MaxHandles, u \in AuthUsers, ok \in BOOLEAN : UA_signedIn(o, u, ok)
  \/ \E o \in 1 .. MaxHandles : UA_signedOut(o)
  \/ \E k \in 1 .. MaxAuthHandlers, ok \in BOOLEAN : UA_onAuthDone(k, ok)
  \/ \E k \in 1 .. MaxAuthHandlers : UA_onDataDone(k)
  \/ \E t \in 1 .. MaxHandles, ok \in BOOLEAN : UA_retry(t, ok)
  \/ \E ok \in BOOLEAN : UA_resetAndReinitialize(ok)

AuthSpec == AuthInit /\ [][AuthNext]_vars

\* -------------------------------------------------------------- properties

SingleOps == {"createDoc", "updateDoc", "upsertDoc", "deleteDoc"}
BatchOps == {"createDocs", "updateDocs", "deleteDocs", "upsertDocs"}

\* The mirror of the component this behaviour exercises.
Mirror ==
  CASE comp = "hc" -> hc_docsById
    [] comp = "cs" -> cs_docsById
    [] comp = "ds" -> ds_doc
    [] comp = "hd" -> hd_doc

IsCollection == comp \in {"hc", "cs"}

\* The entry a mirror value m holds for the identity of single call c.
EntryOf(m, c) == IF IsCollection THEN m[c.ids[1]] ELSE m

\* The entry single call c puts into the mirror.
NewEntryOf(c) ==
  IF c.op = "deleteDoc" THEN (IF IsCollection THEN Absent ELSE NullDoc)
  ELSE c.vals[1]

\* The identity of single call c was absent from the mirror before the call.
WasAbsent(c) ==
  IF IsCollection THEN c.pre[1][c.ids[1]] = Absent ELSE c.pre[1] = NullDoc

\* Every identity a batch call c touched has in m the entry it had before.
BatchRestored(m, c) ==
  \A k \in 1 .. Len(c.ids) : m[c.ids[k]] = c.pre[1][c.ids[k]]

\* C1: useTurboCollection, single mutations with nothing interleaved: when the
\* remote call failed, the call resolved with a failure and the mirror's
\* entry for the identity is what it was just before the call.
C1_HookRollback ==
  comp = "hc" =>
    \A k \in CallIds :
      LET c == calls[k] IN
      (c.st = "done" /\ c.op \in SingleOps /\ c.rerr # "none" /\ Clean(c))
        => /\ c.res = "fail"
           /\ EntryOf(hc_docsById, c) = EntryOf(c.pre[1], c)

\* C2: TurboCollectionService and TurboDocumentService, single mutations with
\* nothing interleaved: when the remote call failed, the call resolved with a
\* failure and the mirror's entity is what it was just before the call.
C2_ServiceRollback ==
  comp \in {"cs", "ds"} =>
    \A k \in CallIds :
      LET c == calls[k] IN
      (c.st = "done" /\ c.op \in SingleOps /\ c.rerr # "none" /\ Clean(c))
        => /\ c.res = "fail"
           /\ EntryOf(Mirror, c) = EntryOf(c.pre[1], c)

\* C3: useTurboDocument, mutations with nothing interleaved: when the remote
\* call failed, the document the hook exposes is the one it exposed just
\* before the call (also when that one was the initialValueLocator seed).
C3_DocumentHookRollback ==
  comp = "hd" =>
    \A k \in CallIds :
      LET c == calls[k] IN
      (c.st = "done" /\ c.rerr # "none" /\ Clean(c)) => hd_doc = c.pre[1]

\* C4: updateDoc on an identity absent from the mirror resolves with a
\* failure, issues no Remote Store call and leaves the mirror unchanged.
C4_UpdateMissing ==
  \A k \in CallIds :
    LET c == calls[k] IN
    (c.st # "idle" /\ c.op = "updateDoc" /\ WasAbsent(c))
      => /\ c.st = "done"
         /\ c.res = "fail"
         /\ ~c.issued
         /\ (Clean(c) => Mirror = c.pre[1])

\* C4 witness: a TurboCollectionService.updateDoc on a missing identity has
\* resolved.
C4_Witness ==
  /\ comp = "cs"
  /\ \E k \in CallIds :
       /\ calls[k].st = "done" /\ calls[k].op = "updateDoc"
       /\ WasAbsent(calls[k]) /\ calls[k].res = "fail" /\ Clean(calls[k])

\* C5: deleteDoc on an identity absent from the mirror (TurboCollectionService,
\* useTurboCollection, useTurboDocument) fails before touching the Remote
\* Store: no remote delete, no change of the mirror, a failure result.
C5_DeleteMissing ==
  comp \in {"cs", "hc", "hd"} =>
    \A k \in CallIds :
      LET c == calls[k] IN
      (c.st # "idle" /\ c.op = "deleteDoc" /\ WasAbsent(c))
        => /\ c.st = "done"
           /\ c.res = "fail"
           /\ ~c.issued
           /\ (Clean(c) => Mirror = c.pre[1])

\* C6: useTurboCollection batch mutations: a staging failure means the batch
\* is never committed; after a staging failure or a commit that threw, the
\* call resolved with a failure and every identity it touched has the entry
\* it had just before the call.
C6_HookBatchAtomic ==
  comp = "hc" =>
    \A k \in CallIds :
      LET c == calls[k] IN
      (c.st # "idle" /\ c.op \in BatchOps)
        => /\ c.sfail => ~c.issued
           /\ (c.st = "done" /\ c.rerr # "none" /\ Clean(c))
                => (c.res = "fail" /\ BatchRestored(hc_docsById, c))

\* C7: TurboCollectionService batch mutations: after a staging failure or a
\* rejected commit the mirror is what it was just before the call.
C7_ServiceBatchAtomic ==
  comp = "cs" =>
    \A k \in CallIds :
      LET c == calls[k] IN
      (c.st = "done" /\ c.op \in BatchOps /\ c.rerr # "none" /\ Clean(c))
        => (c.res = "fail" /\ cs_docsById = c.pre[1])

\* C8: a single mutation that passed its precondition has its new (or
\* removed) value in the mirror while the remote call is pending; when the
\* call succeeds the entry is still that value and the call resolved with
\* success carrying it.
C8_OptimisticApply ==
  \A k \in CallIds :
    LET c == calls[k] IN
    (c.op \in SingleOps /\ c.issued /\ Clean(c))
      => /\ c.st = "pending" => EntryOf(Mirror, c) = NewEntryOf(c)
         /\ (c.st = "done" /\ c.rerr = "none")
              => /\ EntryOf(Mirror, c) = NewEntryOf(c)
                 /\ c.res = "success"
                 /\ c.out = c.vals

\* C8 witness: a useTurboCollection.createDoc has succeeded, nothing
\* interleaved.
C8_Witness ==
  /\ comp = "hc"
  /\ \E k \in CallIds :
       /\ calls[k].st = "done" /\ calls[k].op = "createDoc"
       /\ calls[k].res = "success" /\ Clean(calls[k])
       /\ hc_docsById[calls[k].ids[1]] = calls[k].vals[1]
       /\ calls[k].pre[1][calls[k].ids[1]] # calls[k].vals[1]

\* C9: every mutation of TurboCollectionService, TurboDocumentService and
\* useTurboCollection settles with a success or failure result (no exception
\* escapes); a remote failure, and a missing identity that is checked for,
\* gives a failure result, and the failure carries the remote error.
C9_AlwaysAResult ==
  comp \in {"cs", "ds", "hc"} =>
    \A k \in CallIds :
      LET c == calls[k] IN
      c.st = "done"
        => /\ c.res \in {"success", "fail"}
           /\ c.rerr # "none" => (c.res = "fail" /\ c.err = c.rerr)
           /\ ~c.issued => c.res = "fail"
           /\ (c.issued /\ c.rerr = "none") => c.res = "success"

\* C9 witness: a TurboCollectionService batch whose commit rejected has
\* resolved with a failure carrying the commit's error.
C9_Witness ==
  /\ comp = "cs"
  /\ \E k \in CallIds :
       /\ calls[k].st = "done" /\ calls[k].op \in BatchOps
       /\ calls[k].issued /\ calls[k].rerr \in RemoteErrors
       /\ calls[k].res = "fail" /\ calls[k].err = calls[k].rerr

\* C10: useTurboCollection: when a snapshot was applied between the
\* optimistic change and the rollback of a failed mutation, the mirror holds
\* the snapshot's entry for the identity after the rollback.
C10_RollbackKeepsSnapshot ==
  comp = "hc" =>
    \A k \in CallIds :
      LET c == calls[k] IN
      (c.st = "done" /\ c.op \in SingleOps /\ c.rerr # "none"
         /\ c.snap # <<>> /\ ~c.others)
        => EntryOf(hc_docsById, c) = EntryOf(c.snap[1], c)

\* ---------------------------------------------------------- stream lifecycle

\* The listeners of the service that are live, and whether it holds a handle.
LiveListeners == IF comp = "cs" THEN Cardinality(cs_listeners) ELSE Len(ds_listeners)
HoldsHandle == IF comp = "cs" THEN cs_unsubscribe # 0 ELSE ds_unsubscribe # "none"

\* At most one listener is live, it is the one whose handle the service
\* holds, and no handle that was not live has been invoked.
C11_Listeners ==
  /\ LiveListeners <= 1
  /\ LiveListeners = 1 => HoldsHandle
  /\ comp = "cs" => cs_listeners \subseteq {cs_unsubscribe}
  /\ comp = "ds" => \A k \in 1 .. Len(ds_listeners) : ds_listeners[k] = ds_unsubscribe
  /\ ~releasedTwice

\* A step that begins and ends with no handle held leaves the listeners alone.
C11_StopWithoutHandle ==
  /\ (comp = "cs" /\ cs_unsubscribe = 0 /\ cs_unsubscribe' = 0)
       => cs_listeners' = cs_listeners
  /\ (comp = "ds" /\ ds_unsubscribe = "none" /\ ds_unsubscribe' = "none")
       => ds_listeners' = ds_listeners

\* C11: TurboDocumentService and TurboCollectionService: after any sequence
\* of stream / streamByQuery / load / stopStream / dispose at most one remote
\* listener is live; a stream call made while a handle is live releases it
\* before the new one is installed; stopStream with no handle is a no-op;
\* no handle is released more than once.
C11_OneListener ==
  [](comp \in {"cs", "ds"} => C11_Listeners) /\ [][C11_StopWithoutHandle]_vars

\* C11 witness: a second stream call of TurboCollectionService has replaced
\* the listener of the first.
C11_Witness ==
  comp = "cs" /\ cs_unsubscribe = 2 /\ cs_listeners = {2}

\* A single-document mirror applies a snapshot in this step.
SnapshotApplied == lastApplied'.n # lastApplied.n

\* TurboCollectionService completes a snapshot handler in this step, and
\* the mapping after the step is exactly the entities delivered to one of
\* the handlers that were in flight, which is the one that completed.
CS_handlerCompletes == Len(cs_handlers') < Len(cs_handlers)
CS_exactSnapshot ==
  \E k \in 1 .. Len(cs_handlers) :
    /\ cs_handlers' = RemoveAt(cs_handlers, k)
    /\ cs_docsById' = MapOfDocs(cs_handlers[k].docs)
    /\ cs_docsInformer' = cs_docsById'

\* The single-document mirror after the step holds exactly what the
\* listener delivered.
ExactSnapshot ==
  /\ comp = "ds" => IF lastApplied'.raw = Absent THEN ds_doc' = NullDoc
                    ELSE ds_doc'.val = lastApplied'.raw
  /\ comp = "hd" => IF lastApplied'.raw = Absent THEN hd_doc' = NullDoc
                    ELSE hd_doc' = [id |-> HD_documentId, val |-> lastApplied'.raw]

\* The same, with the default value of useTurboDocument for a snapshot that
\* reports no document.
ExactSnapshotOrDefault ==
  /\ comp = "ds" => IF lastApplied'.raw = Absent THEN ds_doc' = NullDoc
                    ELSE ds_doc'.val = lastApplied'.raw
  /\ comp = "hd" => IF lastApplied'.raw = Absent THEN hd_doc' = hd_defaultValue
                    ELSE hd_doc' = [id |-> HD_documentId, val |-> lastApplied'.raw]

C13_ExhaustedAtLimit ==
  (comp = "ua" /\ last.ev = "error" /\ run.errs >= 1) =>
    IF run.errs < UA_maxRetries
    THEN last.sched /\ ua_isRetrying /\ ua_retryTimeoutRef \in timers
    ELSE /\ ua_retryCount = UA_maxRetries
         /\ ~ua_isRetrying
         /\ ~last.sched
         /\ timers = {}

\* C14: FirebaseAuthService with the limit M: after M stream errors in a
\* row, each but the last followed by its retry and none by a delivered
\* value, the supervisor is exhausted (retry count M, no timer, nothing
\* subscribed) and the M-th error itself has scheduled no retry timer.
C14_MthErrorExhausts ==
  (comp = "fa" /\ last.ev = "error" /\ run.errs = FA_maxNrOfRetry) =>
    /\ ~last.sched
    /\ timers = {}
    /\ fa_nrOfRetry = FA_maxNrOfRetry
    /\ fa_subscription = 0 /\ fa_userSubscription = 0

HeldSubscription ==
  IF comp = "fa" THEN fa_subscription ELSE ua_streamUnsubscribeRef
CachedUserId == IF comp = "fa" THEN fa_cachedUserId ELSE ua_cachedUserId
RetryCount == IF comp = "fa" THEN fa_nrOfRetry ELSE ua_retryCount

\* C16: when the auth observer reports no user while a data subscription is
\* held, then once the handler completes (no auth observation having
\* arrived after it): cachedUserId is none, the subscription is stopped
\* (and by one invocation: no handle is invoked after its release), the
\* supervisor holds no data subscription, and onData(null, null) was
\* invoked once.
C16_SignOutStops ==
  (last.ev = "signedOut" /\ last.rel # 0) =>
     /\ CachedUserId = NoUser
     /\ HeldSubscription = 0
     /\ last.rel \notin streams
     /\ last.data = 1
     /\ ~releasedTwice

\* C17: when the auth observer reports no user, a pending retry timer is
\* cancelled and the retry count is reset to 0.
C17_SignOutCancelsRetry ==
  last.ev = "absent" => (timers = {} /\ RetryCount = 0)

\* C18: in both supervisors, in every reachable state, at most one auth
\* observer is registered and at most one data subscription is started and
\* not released.
C18_OneObserverOneStream ==
  Cardinality(observers) <= 1 /\ Cardinality(streams) <= 1

\* C19: whenever a (re)subscription succeeds, the retry count is 0.
C19_SuccessResetsCount ==
  last.ev = "subscribed" => RetryCount = 0

\* C20: when the retry count reaches the limit, onDone is invoked in that
\* step with the final count and the limit.
C20_OnDoneAtLimit ==
  [][(RetryCount' = MaxRetries /\ RetryCount # MaxRetries)
       => last'.done = [n |-> MaxRetries, max |-> MaxRetries]]_vars

\* The supervisor has used up its retries: FirebaseAuthService has run the
\* else branch of _tryRetry (the count at the limit, the auth observer
\* released) and has not been initialised since; useAuthSync has its retry
\* count at the limit.
Exhausted ==
  IF comp = "fa"
  THEN fa_nrOfRetry >= FA_maxNrOfRetry /\ fa_userSubscription = 0
  ELSE ua_retryCount >= UA_maxRetries

\* A step of the API that resets or (re)initialises the supervisor.
ExplicitReset ==
  \/ FA_tryInitialiseStream
  \/ FA_resetAndTryInitialiseStream
  \/ FA_dispose
  \/ UA_mount
  \/ UA_unmount
  \/ \E ok \in BOOLEAN : UA_resetAndReinitialize(ok)

\* C21: once a supervisor is Exhausted no data subscription is live, and no
\* step other than an explicit reset (a timer, an auth observation, a
\* resumed callback) starts one.
C21_ExhaustedStaysDown ==
  /\ [](Exhausted => streams = {})
  /\ [][(Exhausted /\ ~ExplicitReset) => streams' = {}]_vars

\* A step of the external reset of a supervisor.
ExternalReset ==
  \/ FA_resetAndTryInitialiseStream
  \/ \E ok \in BOOLEAN : UA_resetAndReinitialize(ok)

\* C22: an external reset cancels every retry timer that was pending, stops
\* the data subscription that was held, leaves the retry count at 0 (or at
\* 1 with the failure of the setup the reset itself made) and, when a user
\* is cached, starts the setup for that user in the same step: a data
\* subscription is started, or the callback is suspended in onAuth, or the
\* setup failed.
C22_ResetRestarts ==
  [][ExternalReset =>
       /\ timers \cap timers' = {}
       /\ HeldSubscription \notin streams'
       /\ (RetryCount' = 0 \/ (last'.ev = "error" /\ last'.nr = 0))
       /\ (CachedUserId # NoUser =>
             \/ streams' \ streams # {}
             \/ Len(handlers') > Len(handlers)
             \/ last'.ev = "error")]_vars

Quiescent == handlers = <<>>

\* The supervisor observes nothing: FirebaseAuthService holds no auth
\* observer (not initialised, disposed, or torn down at the retry limit),
\* useAuthSync is unmounted.
Disposed ==
  IF comp = "fa" THEN fa_userSubscription = 0 ELSE ~ua_isMountedRef

\* C30: in every quiescent state in which no user is cached or the
\* supervisor is disposed (unmounted), no data subscription is live.
C30_NoStreamSignedOut ==
  (Quiescent /\ (CachedUserId = NoUser \/ Disposed)) => streams = {}

\* The suspended auth callbacks that wait for onAuth, and the users of those
\* in hs that do.
AtOnAuth(hs) == {j \in 1 .. Len(hs) : hs[j].pc = "onAuth"}
OnAuthUsers(hs) == {hs[j].user : j \in AtOnAuth(hs)}

\* C23: a step in which an auth callback suspends in onAuth has set
\* cachedUserId to its user and starts no data stream; a step that starts a
\* data stream starts exactly one, and it is the step in which onAuth
\* returns to a suspended callback, the stream being scoped to the user of
\* that callback (without an onAuth option: to the user just set as
\* current).
C23_CacheOnAuthStream ==
  [][/\ (Cardinality(AtOnAuth(handlers')) > Cardinality(AtOnAuth(handlers)) =>
           /\ CachedUserId' = handlers'[Len(handlers')].user
           /\ streams' \subseteq streams)
     /\ (~(streams' \subseteq streams) =>
           /\ Cardinality(streams' \ streams) = 1
           /\ IF comp = "fa" \/ ua_onAuth
                THEN /\ Cardinality(AtOnAuth(handlers')) < Cardinality(AtOnAuth(handlers))
                     /\ \A s \in streams' \ streams : scope'[s] \in OnAuthUsers(handlers)
                ELSE \A s \in streams' \ streams : scope'[s] = ua_currentUserRef')]_vars

\* FirebaseAuthService has observed user u2 with no data subscription live
\* and has, after onAuth, started a data stream for u2.
C23_Witness ==
  /\ comp = "fa" /\ sequential
  /\ last.ev = "subscribed"
  /\ fa_cachedUserId = "u2"
  /\ fa_subscription # 0 /\ streams = {fa_subscription}
  /\ scope[fa_subscription] = "u2"

\* C24: whenever no auth callback is suspended, every live data
\* subscription is scoped to cachedUserId: the observation of a different
\* user has released the old stream and started one for the new user.
C24_StreamOfCachedUser ==
  Quiescent => \A s \in streams : scope[s] = CachedUserId

Ready ==
  CASE comp = "cs" -> cs_isReadyResolved
    [] comp = "ds" -> ds_isReadyResolved
    [] comp = "hd" -> hd_isReady
    [] OTHER -> hc_isReady

\* The step applies a snapshot (a value or an explicit not-found) to the
\* mirror.
SnapshotObserved ==
  IF comp = "cs" THEN Len(cs_handlers') < Len(cs_handlers)
  ELSE lastApplied'.n # lastApplied.n

\* C25: the ready state becomes true only in a step that applies a
\* snapshot: not by a stream error, nor by dispose().
C25_ReadyOnlyBySnapshot ==
  [][(Ready' /\ ~Ready) => SnapshotObserved]_vars

\* The identity an updateDoc call wrote, and what the mirror holds there.
HC_entry(m, c) == HC_tryFindById(m, c.ids[1])

\* Call c is an updateDoc whose remote call fails in this step.
UpdateFails(c) ==
  /\ calls[c].st = "pending" /\ calls[c].op = "updateDoc"
  /\ calls'[c].st = "done" /\ calls'[c].res = "fail"

\* C29: updates of one identity are not serialized.  The rollback of a
\* failed update writes the value the call captured before its own
\* optimistic write, whatever a later update has written there since; so
\* an execution is reachable (C29_Witness) in which update B is applied
\* while update A is pending, A fails, and the mirror holds the value from
\* before A although B succeeds.
C29_RollbackWritesCaptured ==
  [][\A c \in DOMAIN calls :
       UpdateFails(c) =>
         IF comp = "hc"
           THEN HC_entry(hc_docsById', calls[c]) = calls[c].prev[1]
           ELSE hd_doc' = calls[c].prev[1]]_vars

\* Call 1 is update A, call 2 update B of the same identity: B captured A's
\* optimistic value as its previous value (it was applied while A was
\* pending), A has failed and B succeeded, and the mirror holds the value
\* from before A, which is not B's value.
C29_Witness ==
  /\ comp \in RaceComponents
  /\ \A c \in {1, 2} : calls[c].st = "done" /\ calls[c].op = "updateDoc"
  /\ calls[1].ids = calls[2].ids
  /\ calls[1].res = "fail" /\ calls[2].res = "success"
  /\ calls[2].prev = calls[1].vals
  /\ calls[1].prev # calls[1].vals
  /\ LET now == IF comp = "hc" THEN HC_entry(hc_docsById, calls[1]) ELSE hd_doc
     IN now = calls[1].prev[1] /\ now # calls[2].vals[1]

\* C31: TurboCollectionService applies snapshots in the order the listener
\* delivered them: the snapshot handler that resumes from beforeSync and
\* writes the mirror is the one suspended longest, so that the mirror ends
\* at the snapshot delivered last.
C31_SnapshotsInOrder ==
  [][(comp = "cs" /\ Len(cs_handlers') < Len(cs_handlers)) =>
       /\ cs_handlers' = Tail(cs_handlers)
       /\ cs_docsById' = Head(cs_handlers).map]_vars

\* C32: while TurboCollectionService holds no subscription (stopStream() or
\* dispose() has returned and no stream was started since), a snapshot
\* handler that resumes changes neither the mirror nor the loaded and
\* loading flags.
C32_NoSnapshotAfterStop ==
  [][(/\ comp = "cs"
      /\ cs_unsubscribe = 0 /\ cs_listeners = {}
      /\ Len(cs_handlers') < Len(cs_handlers)) =>
       UNCHANGED <<cs_docsById, cs_docsInformer, cs_isLoaded, cs_isLoading>>]_vars

\* The identities the collection mirror of the component holds an entry for.
Present(m) == {i \in Ids : m[i] # Absent}
CollectionMirror == IF comp = "hc" THEN hc_docsById ELSE cs_docsById

\* C33: a batch create of n transforms that take their id from vars stages
\* n documents with distinct identities, and the mirror gains n entries.
C33_FreshIdPerTransform ==
  [][\A c \in DOMAIN calls :
       (/\ calls[c].st = "idle"
        /\ calls'[c].st = "pending" /\ calls'[c].op = "createDocs") =>
         /\ Cardinality({calls'[c].ids[k] : k \in 1 .. Len(calls'[c].ids)})
              = Len(calls'[c].ids)
         /\ Cardinality(Present(CollectionMirror') \ Present(CollectionMirror))
              = Len(calls'[c].ids)]_vars

\* C34: in both supervisors the retry count stays within 0 .. maxRetries.
C34_RetryCountBounded ==
  RetryCount >= 0 /\ RetryCount <= MaxRetries

\* The retry timer the supervisor holds a handle to (0: none).
HeldTimer == IF comp = "fa" THEN fa_retryTimer ELSE ua_retryTimeoutRef

\* C35: at most one retry timer is pending, and a pending timer is the one
\* the supervisor holds.
C35_OneHeldTimer ==
  Cardinality(timers) <= 1 /\ timers \subseteq {HeldTimer}

C37_InformerMatchesMap ==
  comp = "cs" => cs_docsInformer = cs_docsById

\* C38: in useTurboDocument the document the mutations read
\* (previousDocRef) is the document the hook exposes (doc).
C38_RefMatchesDoc ==
  comp = "hd" => hd_previousDocRef = hd_doc

\* A mutation of TurboCollectionService or TurboDocumentService starts in
\* this step and its local change has altered the mirror.
LocalChange ==
  \/ /\ cs_docsById' # cs_docsById
     /\ \E c \in CallIds, id \in Ids :
          \/ \E v \in Vals : \/ CS_createDoc(c, id, v)
                             \/ CS_updateDoc(c, id, v)
                             \/ CS_upsertDoc(c, id, v)
          \/ CS_deleteDoc(c, id)
  \/ /\ ds_doc' # ds_doc
     /\ \E c \in CallIds :
          \/ \E d \in Docs : DS_createDoc(c, d)
          \/ \E v \in Vals : DS_updateDoc(c, v)
          \/ \E id \in Ids, v \in Vals : DS_upsertDoc(c, id, v)
          \/ DS_deleteDoc(c)

\* C39: a local change applied to a mirror leaves the mirror ready.
C39_LocalChangeMarksReady ==
  [][LocalChange =>
       IF comp = "cs" THEN cs_isReadyResolved' ELSE ds_isReadyResolved']_vars

\* A load() call is waiting for isReady.
LoadPending == comp = "cs" /\ cs_loadPromise

\* C40: a pending load() of TurboCollectionService settles once a snapshot
\* has been delivered or the stream has reported an error; when a load()
\* settles isLoading is false; a load() made while one is pending opens no
\* subscription, and at most one subscription is open.
C40_LoadSettles ==
  /\ (LoadPending /\ (cs_handlers # <<>> \/ last.ev = "error")) ~> ~LoadPending
  /\ [][(LoadPending /\ ~cs_loadPromise') => ~cs_isLoading']_vars
  /\ [][(CS_load /\ ~cs_isLoaded /\ ~cs_loadPromise') => ~cs_isLoading']_vars
  /\ [][(CS_load /\ cs_loadPromise) => UNCHANGED cs_listeners]_vars
  /\ [](Cardinality(cs_listeners) <= 1)

====
